---------------------------- MODULE Spec2Model ----------------------------
(***************************************************************************)
(* Model of the year-distribution, join, aggregation and gap-filling code  *)
(* of the metro cost scripts (scripts/common.py, average_cost_of_cars.py,  *)
(* average_cost_of_track_per_km.py, tcp_rolling_costs.py, metro_costs.py). *)
(*                                                                         *)
(* Numbers.  The code works on floats; the model works on exact rationals. *)
(* A raw quantity is an integer; a distributed quantity is kept in units   *)
(* of 1/Scale, where Scale is a common multiple of every possible span, so *)
(* raw / span is the integer raw * Scale / span.  A missing value (pandas  *)
(* NaN) is the sentinel NaN for numbers and the string "NaN" for text.     *)
(* A ratio of two sums is a tagged value: a fraction, inf or nan.          *)
(***************************************************************************)
EXTENDS Integers, Sequences, FiniteSets, TLC

\* ----- bounds of the model
MaxRecords == 2
MaxSpan == 2
MaxVal == 2

\* ----- program constants
CutoffYear == 2010
CalstaEndYear == 2027
CalstaReference == "https://dot.ca.gov/news-releases/news-release-2024-007"
Million == 1000000

\* pandas missing value for a numeric cell
NaN == -9999
\* what numpy's astype(int) makes of a NaN on x86-64 (the smallest integer)
IntMin == -2147483647

VARIABLES
    pc,             \* position of the run
    records,        \* divide_across_years: the frame passed in
    melted_df,      \* divide_across_years: the frame returned
    outcome,        \* how the call under study ended
    df,             \* rolling-stock pipeline: the records that reach the distributor
    merged_cost_df, \* rolling-stock pipeline: the joined distributions
    regional_data,  \* rolling-stock pipeline: the aggregate by (uitp_region, year)
    track_cost,     \* gap filler: the rolling-stock cost table read from the output folder
    df_merged,      \* gap filler: the frame passed to the first call
    df_with_avg,    \* gap filler: the frame the first call returned
    df_refilled,    \* gap filler: the frame a second call on df_with_avg returned
    raw_df,         \* the rows of rolling_stock_cost_tcp_raw.csv
    io_log,         \* the reads, computations and writes of the run so far
    dev_status_data, \* rolling-stock pipeline: the aggregate by (development_status_3, year)
    df_new,         \* add_global_average: the frame returned
    df_twice,       \* fix_calsta_project_data: the frame a second call returned
    cars_pass,        \* distributor: the frame the pass for cars returned
    length_pass,      \* distributor: the frame the pass for length returned
    real_cost_pass,   \* distributor: the frame the pass for real_cost returned
    year_columns,   \* distributor: the year columns its input frame has
    country_data,   \* track pipeline: the aggregate by (country, development_status_3, year)
    uitp,           \* metro costs: the rows of the UITP track length table
    metro_df,       \* metro costs: the frame the pipeline has built so far
    regional_cost_track_per_km, \* metro costs: the track cost table in the output folder
    regional_cars_cost_per_km   \* metro costs: the rolling-stock cost table in the output folder

divideVars == <<records, melted_df>>
pipelineVars == <<df, merged_cost_df, regional_data>>
fillVars == <<track_cost, df_merged, df_with_avg, df_refilled>>
runVars == <<raw_df, io_log, dev_status_data, df_new, df_twice>>
passVars == <<cars_pass, length_pass, real_cost_pass, year_columns>>
trackVars == <<country_data>>
metroVars == <<uitp, metro_df, regional_cost_track_per_km, regional_cars_cost_per_km>>
vars == <<pc, outcome, records, melted_df, df, merged_cost_df, regional_data,
          track_cost, df_merged, df_with_avg, df_refilled,
          raw_df, io_log, dev_status_data, df_new, df_twice,
          cars_pass, length_pass, real_cost_pass, year_columns, country_data,
          uitp, metro_df, regional_cost_track_per_km, regional_cars_cost_per_km>>

\* a frame without columns or rows
NoFrame == [columns |-> {}, rows |-> {}]

\* the variables of the whole run before the run has read anything
RunIdle ==
    /\ raw_df = <<>>
    /\ io_log = <<>>
    /\ dev_status_data = {}
    /\ df_new = <<>>
    /\ df_twice = <<>>

\* the frame of a pass before the distributor has run
NoPass == [rows |-> {}, id_year_columns |-> {}]

\* the frames of the passes and the country table before they are computed
PassIdle ==
    /\ cars_pass = NoPass
    /\ length_pass = NoPass
    /\ real_cost_pass = NoPass
    /\ year_columns = {}
    /\ country_data = {}

\* the variables of the metro cost estimate before it has read anything
MetroIdle ==
    /\ uitp = {}
    /\ metro_df = NoFrame
    /\ regional_cost_track_per_km = {}
    /\ regional_cars_cost_per_km = {}

\* ------------------------------------------------------------------------
\* pandas / numpy primitives

isna(x) == x = NaN

RECURSIVE Gcd(_, _)
Gcd(a, b) == IF b = 0 THEN a ELSE Gcd(b, a % b)

RECURSIVE LcmUpTo(_)
LcmUpTo(n) == IF n <= 1 THEN 1 ELSE (LcmUpTo(n - 1) * n) \div Gcd(LcmUpTo(n - 1), n)

\* one raw unit, in the units distributed values are kept in
Scale == LcmUpTo(MaxSpan)

\* sum of a function's values, NaN cells skipped (Series.sum, skipna)
RECURSIVE SumFn(_)
SumFn(f) ==
    IF DOMAIN f = {} THEN 0
    ELSE LET k == CHOOSE x \in DOMAIN f : TRUE
             rest == [x \in DOMAIN f \ {k} |-> f[x]]
         IN (IF isna(f[k]) THEN 0 ELSE f[k]) + SumFn(rest)

\* Series.min() / Series.max(): NaN cells skipped, NaN when nothing is left
SeriesMin(frame, col) ==
    LET present == {frame[i][col] : i \in {j \in DOMAIN frame : ~isna(frame[j][col])}}
    IN IF present = {} THEN NaN ELSE CHOOSE m \in present : \A x \in present : m <= x

SeriesMax(frame, col) ==
    LET present == {frame[i][col] : i \in {j \in DOMAIN frame : ~isna(frame[j][col])}}
    IN IF present = {} THEN NaN ELSE CHOOSE m \in present : \A x \in present : m >= x

\* .astype(int): a NaN has no integer value; the result is whatever the
\* platform's float-to-int conversion gives
NanCasts == {IntMin, 0}
astype_int(x, cast) == IF isna(x) THEN cast ELSE x

\* the conversions a call on `frame` can meet: one of NanCasts when the
\* minimum start year or the maximum end year is NaN, none to choose otherwise
CastOutcomes(frame) ==
    IF isna(SeriesMin(frame, "start_year")) \/ isna(SeriesMax(frame, "end_year"))
    THEN NanCasts ELSE {0}

\* ------------------------------------------------------------------------
\* divide_across_years

\* list(range(min_year, max_year + 1)) cannot be built
RangeTooLong(min_year, max_year) == min_year = IntMin /\ max_year > IntMin

\* (df["start_year"] <= year) & (df["end_year"] >= year); a comparison with
\* NaN is False
InSpanStrictEnd(r, year) ==
    /\ ~isna(r.start_year) /\ ~isna(r.end_year)
    /\ r.start_year <= year /\ r.end_year > year

InSpan(r, year) ==
    /\ ~isna(r.start_year) /\ ~isna(r.end_year)
    /\ r.start_year <= year /\ r.end_year >= year

\* df[var] / (df["end_year"] - df["start_year"] + 1), used where InSpan
ProRatedUndivided(r, var) ==
    IF isna(r[var]) THEN NaN ELSE r[var] * Scale

ProRated(r, var) ==
    IF isna(r[var]) THEN NaN
    ELSE (r[var] * Scale) \div (r.end_year - r.start_year + 1)

\* the cell of the column added for `year`
YearCellEveryYear(r, var, year) ==
    IF ~isna(r.start_year) /\ ~isna(r.end_year) /\ r.start_year <= r.end_year
    THEN ProRated(r, var) ELSE 0

YearCell(r, var, year) == IF InSpan(r, year) THEN ProRated(r, var) ELSE 0

\* d[output_var] > 0; NaN > 0 is False
PositiveOrZero(v) == ~isna(v) /\ v >= 0

Positive(v) == ~isna(v) /\ v > 0

\* the rows of the melted frame that pass the filter; `rec` is the position
\* of the input row the melted row was made from.  When no record has both
\* bounds every cell of every year column is 0 and no row passes.
MeltedRows(frame, var, years) ==
    IF \A i \in DOMAIN frame : isna(frame[i].start_year) \/ isna(frame[i].end_year)
    THEN {}
    ELSE {row \in {[rec |-> i, distributed_year |-> y,
                    distributed |-> YearCell(frame[i], var, y)] :
                      i \in DOMAIN frame, y \in years} : Positive(row.distributed)}

divide_across_yearsOpenRange(frame, var, cast) ==
    LET min_year == astype_int(SeriesMin(frame, "start_year"), cast)
        max_year == astype_int(SeriesMax(frame, "end_year"), cast)
    IN IF RangeTooLong(min_year, max_year)
       THEN [outcome |-> "MemoryError", rows |-> {}]
       ELSE [outcome |-> "returned",
             rows |-> MeltedRows(frame, var, min_year..(max_year - 1))]

divide_across_years(frame, var, cast) ==
    LET min_year == astype_int(SeriesMin(frame, "start_year"), cast)
        max_year == astype_int(SeriesMax(frame, "end_year"), cast)
    IN IF RangeTooLong(min_year, max_year)
       THEN [outcome |-> "MemoryError", rows |-> {}]
       ELSE [outcome |-> "returned", rows |-> MeltedRows(frame, var, min_year..max_year)]

\* ------------------------------------------------------------------------
\* Specification of divide_across_years as a function of its input

YearDomain == CutoffYear..(CutoffYear + MaxSpan - 1)

CostRecord ==
    [start_year : YearDomain \cup {NaN},
     end_year   : YearDomain \cup {NaN},
     cost       : (-1..MaxVal) \cup {NaN}]

\* a number for each record, to list a frame in one order only
CostRecordRank(r) ==
    LET start == IF isna(r.start_year) THEN 0 ELSE r.start_year - CutoffYear + 1
        end == IF isna(r.end_year) THEN 0 ELSE r.end_year - CutoffYear + 1
        cost == IF isna(r.cost) THEN 0 ELSE r.cost + 2
    IN (start * (MaxSpan + 1) + end) * (MaxVal + 3) + cost

\* the frames of n records, one per multiset of records: the rows a record
\* gets do not depend on its position
SortedCostFrames(n) ==
    {frame \in [1..n -> CostRecord] :
        \A i \in 1..(n - 1) : CostRecordRank(frame[i]) <= CostRecordRank(frame[i + 1])}

InitDivide ==
    /\ pc = "divide"
    /\ PassIdle
    /\ MetroIdle
    /\ \E n \in 0..MaxRecords : records \in SortedCostFrames(n)
    /\ melted_df = {}
    /\ outcome = "pending"
    /\ df = <<>>
    /\ merged_cost_df = {}
    /\ regional_data = {}
    /\ track_cost = {}
    /\ df_merged = NoFrame
    /\ df_with_avg = NoFrame
    /\ df_refilled = NoFrame
    /\ RunIdle

DivideAcrossYears ==
    /\ pc = "divide"
    /\ outcome = "pending"
    /\ \E cast \in CastOutcomes(records) :
         LET res == divide_across_years(records, "cost", cast)
         IN /\ outcome' = res.outcome
            /\ melted_df' = res.rows
    /\ UNCHANGED <<pc, records>>
    /\ UNCHANGED <<pipelineVars, fillVars, runVars,
                   passVars, trackVars, metroVars>>

NextDivide == DivideAcrossYears

SpecDivide == InitDivide /\ [][NextDivide]_vars

\* ------------------------------------------------------------------------
\* Properties of divide_across_years (SpecDivide)

\* the record has both bounds and start_year <= end_year
HasSpan(r) == r.start_year # NaN /\ r.end_year # NaN /\ r.start_year <= r.end_year

SpanOf(r) == r.end_year - r.start_year + 1

\* total of the distributed column of the returned frame, in raw units * Scale
DistributedTotal == SumFn([row \in melted_df |-> row.distributed])

\* total of the raw column over the input rows at the positions in S
RawTotal(S) == SumFn([i \in S |-> records[i].cost])

\* the records that have a span and a positive raw value
Emitting == {i \in DOMAIN records : HasSpan(records[i]) /\ records[i].cost # NaN /\ records[i].cost > 0}

RowsOfRecord(i) == {row \in melted_df : row.rec = i}

\* C1 as stated: the distributed values of the returned rows add up to the
\* raw values of all the input records (stated here for the frames whose
\* records all have both bounds and start_year <= end_year).
C1_ConservationAllRecords ==
    (outcome = "returned" /\ \A i \in DOMAIN records : HasSpan(records[i]))
        => DistributedTotal = Scale * RawTotal(DOMAIN records)

\* C1 amended: the distributed values of the returned rows add up to the raw
\* values of the input records that have both bounds, start_year <= end_year
\* and a positive raw value; the other records add nothing.
C1_ConservationEmittingRecords ==
    outcome = "returned" => DistributedTotal = Scale * RawTotal(Emitting)

\* a call returned rows for a record spanning several years next to a record
\* whose raw value is not positive
C1_Witness ==
    /\ outcome = "returned"
    /\ \E i \in Emitting : SpanOf(records[i]) > 1
    /\ \E i \in DOMAIN records : HasSpan(records[i]) /\ records[i].cost # NaN /\ records[i].cost <= 0

\* C2: a record with start_year <= end_year and a positive raw value gets
\* exactly one row per year of start_year..end_year, no row for another year,
\* and each row carries raw / span.
C2_OneRowPerYearOfSpan ==
    outcome = "returned" =>
        \A i \in Emitting :
            /\ Cardinality(RowsOfRecord(i)) = SpanOf(records[i])
            /\ {row.distributed_year : row \in RowsOfRecord(i)} =
                   records[i].start_year..records[i].end_year
            /\ \A row \in RowsOfRecord(i) :
                   row.distributed * SpanOf(records[i]) = records[i].cost * Scale

\* a call returned rows for two records of different span
C2_Witness ==
    /\ outcome = "returned"
    /\ \E i, j \in Emitting : SpanOf(records[i]) = 1 /\ SpanOf(records[j]) > 1

\* C10: a call on a frame in which some record lacks start_year or end_year
\* ends in MissingBoundsError.
C10_MissingBoundsFailLoudly ==
    (outcome # "pending" /\ \E i \in DOMAIN records :
                               records[i].start_year = NaN \/ records[i].end_year = NaN)
        => outcome = "MissingBoundsError"

\* C11: a record whose raw value is zero or negative gets no row, and no row
\* of the returned frame has a distributed value <= 0.
C11_NonPositiveExcluded ==
    outcome = "returned" =>
        /\ \A i \in DOMAIN records :
               (records[i].cost # NaN /\ records[i].cost <= 0) => RowsOfRecord(i) = {}
        /\ \A row \in melted_df : row.distributed # NaN /\ row.distributed > 0

\* a call returned rows for one record and none for a record with a span and
\* a negative raw value
C11_Witness ==
    /\ outcome = "returned"
    /\ melted_df # {}
    /\ \E i \in DOMAIN records :
          HasSpan(records[i]) /\ records[i].cost # NaN /\ records[i].cost < 0
          /\ RowsOfRecord(i) = {}

\* C19: a record with start_year = end_year and a positive raw value gets
\* exactly one row, for that year, carrying the raw value.
C19_SpanOneIdentity ==
    outcome = "returned" =>
        \A i \in Emitting :
            records[i].start_year = records[i].end_year =>
                RowsOfRecord(i) = {[rec |-> i,
                                    distributed_year |-> records[i].start_year,
                                    distributed |-> records[i].cost * Scale]}

\* a call returned the row of a one-year record whose year is the last year
\* of the frame, next to a record that starts earlier
C19_Witness ==
    /\ outcome = "returned"
    /\ \E i \in Emitting, j \in DOMAIN records :
          /\ records[i].start_year = records[i].end_year
          /\ records[j].start_year # NaN /\ records[j].start_year < records[i].start_year
          /\ RowsOfRecord(i) # {}

\* the rows of a call on the records first..last of the frame, each row
\* numbered by the position of its record in the whole frame
RowsOfPart(first, last) ==
    LET part == [i \in 1..(last - first + 1) |-> records[first + i - 1]]
    IN {[rec |-> row.rec + first - 1,
         distributed_year |-> row.distributed_year,
         distributed |-> row.distributed] :
            row \in divide_across_years(part, "cost", 0).rows}

\* C28: for a frame whose records all have both bounds and start_year <=
\* end_year, the rows of the whole frame are the rows of a call on its first
\* k records together with the rows of a call on the others, for every k.
C28_DistributionLocalToRecord ==
    (outcome = "returned" /\ \A i \in DOMAIN records : HasSpan(records[i])) =>
        \A k \in 1..(Len(records) - 1) :
            melted_df = RowsOfPart(1, k) \cup RowsOfPart(k + 1, Len(records))

\* a call returned rows for two records whose spans do not meet, so that
\* each widens the year domain of the other
C28_Witness ==
    /\ outcome = "returned"
    /\ \A i \in DOMAIN records : HasSpan(records[i])
    /\ \E i, k \in Emitting : records[i].end_year < records[k].start_year

\* ------------------------------------------------------------------------
\* distribute_all_columns_over_years and the regional aggregation of
\* tcp_rolling_stock_pipeline (average_cost_of_cars.py)
\*
\* A record carries the columns of the merge key list `cols` that decide the
\* run; the columns outside `cols` (reference, ...) are not carried, so two
\* records at different positions with equal fields are two input rows that
\* agree on every column of `cols`.

\* `cols` without distributed_year
MergeCols ==
    {"iso2_code", "city", "trainset", "trains", "cars", "train_length", "length",
     "contract_year", "start_year", "end_year", "currency", "cost", "ppp_rate",
     "real_cost", "metro", "country_cpi", "region_cpi", "development_status_2",
     "development_status_3", "iso3_code", "uitp_region"}

\* the merge key of a melted row of `frame`: the columns of `cols` that the
\* frame's records carry, and the year
MergeKey(frame, row) ==
    <<[c \in MergeCols \cap DOMAIN frame[row.rec] |-> frame[row.rec][c]],
      row.distributed_year>>

\* the right-hand cells of a left row without a match
NoMatch == [rec |-> 0, distributed_year |-> NaN, distributed |-> NaN]

\* left.merge(right, how="left", on=cols): a row for every pair with equal
\* keys (NaN keys equal each other), and a row with empty right-hand cells
\* for every left row without a match; left_key and right_key give the key
\* of each row
LeftMerge(left, right, left_key, right_key) ==
    {p \in left \X right : right_key[p[2]] = left_key[p[1]]}
    \cup {<<l, NoMatch>> : l \in {x \in left : \A r \in right : right_key[r] # left_key[x]}}

\* a row of merged_cost_df: the record columns of the left (length) row, and
\* the distributed cells of the three frames; *_rec is the position of the
\* input row each cell was made from (0: no match)
JoinedRow(frame, l, c, k) ==
    [rec |-> l.rec,
     uitp_region |-> frame[l.rec].uitp_region,
     distributed_year |-> l.distributed_year,
     distributed_length |-> l.distributed,
     cars_rec |-> c.rec,
     distributed_cars |-> c.distributed,
     real_cost_rec |-> k.rec,
     distributed_real_cost |-> k.distributed]

distribute_all_columns_over_years(frame, cast) ==
    LET df_cars == divide_across_years(frame, "cars", cast)
        df_length == divide_across_years(frame, "length", cast)
        df_real_cost == divide_across_years(frame, "real_cost", cast)
        first == LeftMerge(df_length.rows, df_cars.rows,
                           [l \in df_length.rows |-> MergeKey(frame, l)],
                           [r \in df_cars.rows |-> MergeKey(frame, r)])
        second == LeftMerge(first, df_real_cost.rows,
                            [p \in first |-> MergeKey(frame, p[1])],
                            [r \in df_real_cost.rows |-> MergeKey(frame, r)])
    IN IF \E d \in {df_cars, df_length, df_real_cost} : d.outcome # "returned"
       THEN [outcome |-> "MemoryError", rows |-> {}]
       ELSE [outcome |-> "returned",
             rows |-> {JoinedRow(frame, t[1][1], t[1][2], t[2]) : t \in second}]

\* list(range(min_year, max_year + 1)): the year columns a call of
\* divide_across_years adds to the frame it is given
YearColumns(frame, cast) ==
    LET min_year == astype_int(SeriesMin(frame, "start_year"), cast)
        max_year == astype_int(SeriesMax(frame, "end_year"), cast)
    IN IF RangeTooLong(min_year, max_year) THEN {} ELSE min_year..max_year

\* one pass: divide_across_years on a frame that holds the records of
\* `frame` and already has the year columns `columns`.  cols = df.columns is
\* read before the loop, so the year columns the frame came with are among
\* the id_vars of the melt; the loop assigns df[year] on the frame it was
\* given, which has the year columns of the call afterwards.
Pass(frame, columns, var, cast) ==
    [rows |-> divide_across_years(frame, var, cast).rows,
     id_year_columns |-> columns,
     year_columns |-> columns \cup YearColumns(frame, cast)]

\* the frame a pass returned
PassFrame(pass) == [rows |-> pass.rows, id_year_columns |-> pass.id_year_columns]

DistributorPassesWithoutCopy(frame, columns, cast) ==
    LET cars == Pass(frame, columns, "cars", cast)
        length == Pass(frame, cars.year_columns, "length", cast)
        real_cost == Pass(frame, length.year_columns, "real_cost", cast)
    IN [df_cars |-> PassFrame(cars),
        df_length |-> PassFrame(length),
        df_real_cost |-> PassFrame(real_cost),
        year_columns |-> real_cost.year_columns]

\* the three passes of distribute_all_columns_over_years on a frame with the
\* year columns `columns`: each pass is given df.copy(), a frame of its own
\* with the columns of df, and df itself is passed to no call
DistributorPasses(frame, columns, cast) ==
    LET cars == Pass(frame, columns, "cars", cast)
        length == Pass(frame, columns, "length", cast)
        real_cost == Pass(frame, columns, "real_cost", cast)
    IN [df_cars |-> PassFrame(cars),
        df_length |-> PassFrame(length),
        df_real_cost |-> PassFrame(real_cost),
        year_columns |-> columns]

\* a float division: x / 0 is inf, -inf or nan
FloatDiv(a, b) ==
    IF b # 0 THEN [tag |-> "fraction", num |-> a, den |-> b]
    ELSE IF a > 0 THEN [tag |-> "inf", num |-> a, den |-> b]
    ELSE IF a < 0 THEN [tag |-> "-inf", num |-> a, den |-> b]
    ELSE [tag |-> "nan", num |-> a, den |-> b]

\* .sum() of one column over the rows of a group, NaN cells skipped
ColSum(rows, col) == SumFn([j \in rows |-> j[col]])

\* sum of fractions <<num, den>>
RECURSIVE FracSum(_)
FracSum(f) ==
    IF DOMAIN f = {} THEN <<0, 1>>
    ELSE LET k == CHOOSE x \in DOMAIN f : TRUE
             rest == FracSum([x \in DOMAIN f \ {k} |-> f[x]])
         IN <<f[k][1] * rest[2] + rest[1] * f[k][2], f[k][2] * rest[2]>>

\* mean over the rows of a group of num_col / den_col
MeanOfRatios(rows, num_col, den_col) ==
    LET ok == {j \in rows : ~isna(j[num_col]) /\ ~isna(j[den_col])}
        total == FracSum([j \in ok |-> <<j[num_col], j[den_col]>>])
    IN IF ok = {} THEN [tag |-> "nan", num |-> 0, den |-> 0]
       ELSE [tag |-> "fraction", num |-> total[1], den |-> total[2] * Cardinality(ok)]

RegionalRowMeanOfRatios(rows, key) ==
    [uitp_region |-> key[1],
     distributed_year |-> key[2],
     distributed_length |-> ColSum(rows, "distributed_length"),
     distributed_cars |-> ColSum(rows, "distributed_cars"),
     distributed_real_cost |-> ColSum(rows, "distributed_real_cost"),
     cost_per_cars |-> MeanOfRatios(rows, "distributed_real_cost", "distributed_cars"),
     car_cost_per_km |-> MeanOfRatios(rows, "distributed_real_cost", "distributed_length")]

\* the row of regional_data for one group: the sums, then the two ratios
\* computed from the sums
RegionalRow(rows, key) ==
    LET sums == [distributed_length |-> ColSum(rows, "distributed_length"),
                 distributed_cars |-> ColSum(rows, "distributed_cars"),
                 distributed_real_cost |-> ColSum(rows, "distributed_real_cost")]
    IN [uitp_region |-> key[1],
        distributed_year |-> key[2],
        distributed_length |-> sums.distributed_length,
        distributed_cars |-> sums.distributed_cars,
        distributed_real_cost |-> sums.distributed_real_cost,
        cost_per_cars |-> FloatDiv(sums.distributed_real_cost, sums.distributed_cars),
        car_cost_per_km |-> FloatDiv(sums.distributed_real_cost, sums.distributed_length)]

\* df.groupby(by=["uitp_region", "distributed_year"])[...].sum(): one group
\* per key that occurs; rows with a NaN key are left out
GroupByRegionYear(rows) ==
    LET keyed == {j \in rows : j.uitp_region # "NaN"}
        keys == {<<j.uitp_region, j.distributed_year>> : j \in keyed}
    IN {RegionalRow({j \in keyed : <<j.uitp_region, j.distributed_year>> = key}, key) :
          key \in keys}

\* ------------------------------------------------------------------------
\* Specification of the rolling-stock pipeline from the distributor on

UitpRegions == {"Europe"}

\* the years of the frames of the rolling-stock pipeline and of the UITP frame
PipelineYears == {CutoffYear, CutoffYear + 1}

\* the records that pass the filters before the distributor: both bounds
\* present, end_year >= 2010, cars present; length and real_cost may be
\* missing, the region may be unmapped.  The frames are those of the
\* distributor's contract, start_year <= end_year.
PipelineRecord ==
    {r \in [start_year  : PipelineYears,
            end_year    : PipelineYears,
            cars        : {0, 1, 2},
            length      : {NaN, 1},
            real_cost   : {NaN, 1},
            uitp_region : UitpRegions \cup {"NaN"}] : r.start_year <= r.end_year}

\* a number for each record, to list a frame in one order only
RecordRank(r) ==
    LET region == IF r.uitp_region = "NaN" THEN 0 ELSE 1
        len == IF isna(r.length) THEN 0 ELSE 1
        cost == IF isna(r.real_cost) THEN 0 ELSE 1
    IN ((((region * 2 + len) * 2 + cost) * 3 + r.cars) * 2
            + (r.start_year - CutoffYear)) * 2 + (r.end_year - CutoffYear)

\* the frames of n records, one per multiset of records: neither the merges
\* nor the group sums depend on the order of the rows
SortedFrames(n) ==
    {frame \in [1..n -> PipelineRecord] :
        \A i \in 1..(n - 1) : RecordRank(frame[i]) <= RecordRank(frame[i + 1])}

Init ==
    /\ pc = "distribute"
    /\ PassIdle
    /\ MetroIdle
    /\ \E n \in 1..MaxRecords : df \in SortedFrames(n)
    /\ merged_cost_df = {}
    /\ regional_data = {}
    /\ records = <<>>
    /\ melted_df = {}
    /\ outcome = "pending"
    /\ track_cost = {}
    /\ df_merged = NoFrame
    /\ df_with_avg = NoFrame
    /\ df_refilled = NoFrame
    /\ RunIdle

DistributeAllColumnsOverYears ==
    /\ pc = "distribute"
    /\ \E cast \in CastOutcomes(df) :
         LET res == distribute_all_columns_over_years(df, cast)
         IN /\ outcome' = res.outcome
            /\ merged_cost_df' = res.rows
            /\ pc' = IF res.outcome = "returned" THEN "aggregate" ELSE "failed"
    /\ UNCHANGED <<df, regional_data, divideVars, fillVars, runVars,
                   passVars, trackVars, metroVars>>

RegionalAggregation ==
    /\ pc = "aggregate"
    /\ regional_data' = GroupByRegionYear(merged_cost_df)
    /\ pc' = "aggregated"
    /\ UNCHANGED <<df, merged_cost_df, outcome, divideVars, fillVars, runVars,
                   passVars, trackVars, metroVars>>

Next == DistributeAllColumnsOverYears \/ RegionalAggregation

Spec == Init /\ [][Next]_vars

\* ------------------------------------------------------------------------
\* Properties of the join and of the regional aggregation (Spec)

Joined == pc \in {"aggregate", "aggregated"}

\* the rows divide_across_years gives for one variable of the pipeline frame
Distribution(var) == MeltedRows(df, var, SeriesMin(df, "start_year")..SeriesMax(df, "end_year"))

\* the (record, year) pairs of a distribution
PairsOf(var) == {<<row.rec, row.distributed_year>> : row \in Distribution(var)}

\* C3: every (record, year) pair that one of the three distributions has is
\* a row of the joined frame, whichever variable the record lacks.
C3_OuterJoinCompleteness ==
    Joined =>
        \A var \in {"length", "cars", "real_cost"} :
            \A pair \in PairsOf(var) :
                \E j \in merged_cost_df : j.rec = pair[1] /\ j.distributed_year = pair[2]

\* C4: every (record, year) pair of the left distribution is exactly one row
\* of the joined frame, and the joined distributed_length adds up to the
\* total of the length distribution, also for records that agree on every
\* column of the merge key.
C4_SingleRowPerProjectYear ==
    Joined =>
        /\ \A pair \in PairsOf("length") :
               Cardinality({j \in merged_cost_df :
                              j.rec = pair[1] /\ j.distributed_year = pair[2]}) = 1
        /\ SumFn([j \in merged_cost_df |-> j.distributed_length]) =
               SumFn([row \in Distribution("length") |-> row.distributed])

\* the joined rows of one group
GroupRows(g) ==
    {j \in merged_cost_df :
        j.uitp_region = g.uitp_region /\ j.distributed_year = g.distributed_year}

\* the ratio is the quotient of the two sums: num / den = a / b where b is
\* not zero, and not a number where b is zero
IsQuotient(ratio, a, b) ==
    IF b # 0 THEN ratio.tag = "fraction" /\ ratio.den # 0 /\ ratio.num * b = a * ratio.den
    ELSE ratio.tag \in {"inf", "-inf", "nan"}

TotalOf(rows, col) == SumFn([j \in {x \in rows : x[col] # NaN} |-> j[col]])

\* C5: in every (uitp_region, year) group of the regional aggregate,
\* cost_per_cars is the group's summed distributed_real_cost over its summed
\* distributed_cars and car_cost_per_km is the summed distributed_real_cost
\* over the summed distributed_length.
C5_RatioOfSums ==
    pc = "aggregated" =>
        \A g \in regional_data :
            /\ IsQuotient(g.cost_per_cars,
                          TotalOf(GroupRows(g), "distributed_real_cost"),
                          TotalOf(GroupRows(g), "distributed_cars"))
            /\ IsQuotient(g.car_cost_per_km,
                          TotalOf(GroupRows(g), "distributed_real_cost"),
                          TotalOf(GroupRows(g), "distributed_length"))

\* a group of two projects whose costs per car differ
C5_Witness ==
    /\ pc = "aggregated"
    /\ \E g \in regional_data :
         \E a, b \in GroupRows(g) :
            /\ a.rec # b.rec
            /\ a.distributed_cars # NaN /\ b.distributed_cars # NaN
            /\ a.distributed_real_cost # NaN /\ b.distributed_real_cost # NaN
            /\ a.distributed_real_cost * b.distributed_cars #
                   b.distributed_real_cost * a.distributed_cars

\* C6: a group whose summed distributed_cars (distributed_length) is zero has
\* the explicit undefined marker as its cost_per_cars (car_cost_per_km).
C6_ZeroDenominatorUndefined ==
    pc = "aggregated" =>
        \A g \in regional_data :
            /\ g.distributed_cars = 0 => g.cost_per_cars.tag = "undefined"
            /\ g.distributed_length = 0 => g.car_cost_per_km.tag = "undefined"

\* the records of the group's region whose span holds the group's year and
\* whose cars value is positive
CarsRecords(g) ==
    {i \in DOMAIN df :
        /\ df[i].uitp_region = g.uitp_region
        /\ InSpan(df[i], g.distributed_year)
        /\ Positive(df[i].cars)}

\* the records all have a length and differ from each other
LengthsPresentAndDistinct ==
    /\ \A i \in DOMAIN df : Positive(df[i].length)
    /\ \A i, k \in DOMAIN df : i # k => df[i] # df[k]

\* C12: in every group, cost_per_cars is the summed yearly real_cost of the
\* records with a positive cars value over their summed yearly cars; a record
\* with cars = 0 adds nothing to it (stated for frames whose records all have
\* a length and differ from each other).
C12_ZeroCarsContributeNothing ==
    (pc = "aggregated" /\ LengthsPresentAndDistinct) =>
        \A g \in regional_data :
            IsQuotient(g.cost_per_cars,
                       SumFn([i \in CarsRecords(g) |-> ProRated(df[i], "real_cost")]),
                       SumFn([i \in CarsRecords(g) |-> ProRated(df[i], "cars")]))

\* C15: for every year, the distributed_real_cost of the groups of the
\* regional aggregate adds up to the distributed_real_cost of the joined rows
\* of that year, the rows without a region included.
C15_UnmappedKeptUnderNullKey ==
    pc = "aggregated" =>
        \A y \in PipelineYears :
            SumFn([g \in {x \in regional_data : x.distributed_year = y}
                     |-> g.distributed_real_cost]) =
                TotalOf({j \in merged_cost_df : j.distributed_year = y},
                        "distributed_real_cost")

\* ------------------------------------------------------------------------
\* _fill_gaps_with_global_average (metro_costs.py)
\*
\* A frame is its set of column names and its set of rows; a row is a
\* function from the column names to cells.

\* track_cost.loc[uitp_region == "global min"], cut down to year and the
\* value, renamed global_min
GlobalAvgRowsAverageLabel(table) ==
    {[year |-> t.year, global_min |-> t.cost_per_km_distributed] :
        t \in {x \in table : x.uitp_region = "global average"}}

GlobalAvgRows(table) ==
    {[year |-> t.year, global_min |-> t.cost_per_km_distributed] :
        t \in {x \in table : x.uitp_region = "global min"}}

\* df.merge(global_avg, on=["year"], how="left"): a column named global_min
\* on both sides comes out as global_min_x and global_min_y
MergeGlobalAvg(frame, global_avg) ==
    LET clash == "global_min" \in frame.columns
        right_name == IF clash THEN "global_min_y" ELSE "global_min"
        columns == IF clash
                   THEN (frame.columns \ {"global_min"}) \cup {"global_min_x", "global_min_y"}
                   ELSE frame.columns \cup {"global_min"}
        Row(l, v) == [c \in columns |->
                        IF c = right_name THEN v
                        ELSE IF c = "global_min_x" THEN l["global_min"]
                        ELSE l[c]]
    IN [columns |-> columns,
        rows |-> {Row(p[1], p[2].global_min) :
                    p \in {q \in frame.rows \X global_avg : q[1]["year"] = q[2].year}}
                 \cup {Row(l, NaN) :
                    l \in {x \in frame.rows : \A g \in global_avg : g.year # x["year"]}}]

\* np.where(cost_per_km_distributed.isna(), "global min", "regional")
CostDesc(row) ==
    IF isna(row["cost_per_km_distributed"]) THEN "global min" ELSE "regional"

\* np.where(cost_per_km_distributed.isna(), global_min, cost_per_km_distributed)
FilledCostOverwriting(row) == row["global_min"]

FilledCost(row) ==
    IF isna(row["cost_per_km_distributed"]) THEN row["global_min"]
    ELSE row["cost_per_km_distributed"]

fill_gaps_with_global_average(frame, table) ==
    LET merged == MergeGlobalAvg(frame, GlobalAvgRows(table))
        columns == merged.columns \cup {"rolling_stock_cost_desc"}
    IN IF "global_min" \notin merged.columns
       THEN [outcome |-> "KeyError", frame |-> NoFrame]
       ELSE [outcome |-> "returned",
             frame |-> [columns |-> columns,
                        rows |-> {[c \in columns |->
                                     IF c = "rolling_stock_cost_desc" THEN CostDesc(r)
                                     ELSE IF c = "cost_per_km_distributed" THEN FilledCost(r)
                                     ELSE r[c]] : r \in merged.rows}]]

\* ------------------------------------------------------------------------
\* Specification of the gap filler as a function of its input

FillRegions == {"Europe", "MENA"}

\* the UITP frame: one row per year and region (clean_uitp melts a table
\* that has one column per region)
UitpFrame ==
    [columns |-> {"year", "uitp_region"},
     rows |-> {[year |-> y, uitp_region |-> r] : y \in PipelineYears, r \in FillRegions}]

\* pd.merge(left=df, right=track_cost, on=["year", "uitp_region"], how="left")
MergeTrackCost(frame, table) ==
    LET columns == frame.columns \cup {"cost_per_km_distributed"}
        Row(l, v) == [c \in columns |-> IF c = "cost_per_km_distributed" THEN v ELSE l[c]]
    IN [columns |-> columns,
        rows |-> {Row(p[1], p[2].cost_per_km_distributed) :
                    p \in {q \in frame.rows \X table :
                             /\ q[1]["year"] = q[2].year
                             /\ q[1]["uitp_region"] = q[2].uitp_region}}
                 \cup {Row(l, NaN) :
                    l \in {x \in frame.rows :
                             \A t \in table : t.year # x["year"]
                                              \/ t.uitp_region # x["uitp_region"]}}]

\* the keys a cost table can have a row for: the regions and the fallback label
TrackCostKeys == (FillRegions \cup {"global min"}) \X PipelineYears

InitFill ==
    /\ pc = "fill"
    /\ PassIdle
    /\ MetroIdle
    /\ outcome = "pending"
    /\ \E keys \in SUBSET TrackCostKeys :
         \E value \in [keys -> (1..MaxVal) \cup {NaN}] :
            track_cost = {[uitp_region |-> k[1], year |-> k[2],
                           cost_per_km_distributed |-> value[k]] : k \in keys}
    /\ df_merged = MergeTrackCost(UitpFrame, track_cost)
    /\ df_with_avg = NoFrame
    /\ df_refilled = NoFrame
    /\ RunIdle
    /\ records = <<>>
    /\ melted_df = {}
    /\ df = <<>>
    /\ merged_cost_df = {}
    /\ regional_data = {}

FillGaps ==
    /\ pc = "fill"
    /\ LET res == fill_gaps_with_global_average(df_merged, track_cost)
       IN /\ outcome' = res.outcome
          /\ df_with_avg' = res.frame
          /\ pc' = IF res.outcome = "returned" THEN "refill" ELSE "failed"
    /\ UNCHANGED <<track_cost, df_merged, df_refilled, divideVars, pipelineVars, runVars,
                   passVars, trackVars, metroVars>>

FillGapsAgain ==
    /\ pc = "refill"
    /\ LET res == fill_gaps_with_global_average(df_with_avg, track_cost)
       IN /\ outcome' = res.outcome
          /\ df_refilled' = res.frame
          /\ pc' = "refilled"
    /\ UNCHANGED <<track_cost, df_merged, df_with_avg, divideVars, pipelineVars, runVars,
                   passVars, trackVars, metroVars>>

NextFill == FillGaps \/ FillGapsAgain

SpecFill == InitFill /\ [][NextFill]_vars

\* ------------------------------------------------------------------------
\* Properties of the gap filler (SpecFill)

Filled == pc \in {"refill", "refilled"}

\* the rows of a frame for the (region, year) of row r
SameCell(frame, r) ==
    {o \in frame.rows : o["year"] = r["year"] /\ o["uitp_region"] = r["uitp_region"]}

\* the values the cost table holds under the label "global min" for a year
FallbackValues(year) ==
    {t.cost_per_km_distributed : t \in {x \in track_cost : x.uitp_region = "global min" /\ x.year = year}}

\* C7: a (region, year) row whose cost_per_km_distributed is present before
\* the call has the same value after it.
C7_PresentValueKept ==
    Filled =>
        \A r \in df_merged.rows :
            r["cost_per_km_distributed"] # NaN =>
                /\ SameCell(df_with_avg, r) # {}
                /\ \A o \in SameCell(df_with_avg, r) :
                       o["cost_per_km_distributed"] = r["cost_per_km_distributed"]

\* a present value was kept in a year whose fallback value is another one
C7_Witness ==
    /\ Filled
    /\ \E r \in df_merged.rows :
          /\ r["cost_per_km_distributed"] # NaN
          /\ \E v \in FallbackValues(r["year"]) : v # r["cost_per_km_distributed"]

\* C8: a second call on the output of the first returns the same cells and
\* the same provenance tags.
C8_SecondRunChangesNothing ==
    pc = "refilled" =>
        /\ outcome = "returned"
        /\ \A o \in df_with_avg.rows :
              \E n \in SameCell(df_refilled, o) :
                 /\ n["cost_per_km_distributed"] = o["cost_per_km_distributed"]
                 /\ n["rolling_stock_cost_desc"] = o["rolling_stock_cost_desc"]

\* C9 as stated: a missing row gets the fallback value of its year and the
\* tag "global min", a present row the tag "regional", and no row is left
\* with a null value.
C9_FilledFromYearFallback ==
    Filled =>
        \A r \in df_merged.rows :
            /\ SameCell(df_with_avg, r) # {}
            /\ \A o \in SameCell(df_with_avg, r) :
                  /\ r["cost_per_km_distributed"] = NaN =>
                        /\ o["rolling_stock_cost_desc"] = "global min"
                        /\ o["cost_per_km_distributed"] \in FallbackValues(o["year"])
                  /\ r["cost_per_km_distributed"] # NaN =>
                        o["rolling_stock_cost_desc"] = "regional"
                  /\ o["cost_per_km_distributed"] # NaN

\* C9 amended: a missing row gets the tag "global min" and the fallback value
\* of its year, which is null when the cost table has no "global min" row
\* for the year; a present row gets the tag "regional" and keeps its value,
\* so no row tagged "regional" is null.
C9_FilledFromYearFallbackOrNull ==
    Filled =>
        \A r \in df_merged.rows :
            /\ SameCell(df_with_avg, r) # {}
            /\ \A o \in SameCell(df_with_avg, r) :
                  /\ r["cost_per_km_distributed"] = NaN =>
                        /\ o["rolling_stock_cost_desc"] = "global min"
                        /\ IF FallbackValues(o["year"]) = {}
                           THEN o["cost_per_km_distributed"] = NaN
                           ELSE o["cost_per_km_distributed"] \in FallbackValues(o["year"])
                  /\ r["cost_per_km_distributed"] # NaN =>
                        /\ o["rolling_stock_cost_desc"] = "regional"
                        /\ o["cost_per_km_distributed"] # NaN

\* two regions miss the same year and are filled with that year's fallback
\* value, while another year has no fallback value
C9_Witness ==
    /\ Filled
    /\ \E a, b \in df_merged.rows :
          /\ a["uitp_region"] # b["uitp_region"] /\ a["year"] = b["year"]
          /\ a["cost_per_km_distributed"] = NaN /\ b["cost_per_km_distributed"] = NaN
          /\ \E v \in FallbackValues(a["year"]) : v # NaN
    /\ \E r \in df_merged.rows :
          r["cost_per_km_distributed"] = NaN /\ FallbackValues(r["year"]) = {}


\* ------------------------------------------------------------------------
\* The steps of tcp_rolling_stock_pipeline before the distributor
\* (average_cost_of_cars.py, common.py)
\*
\* A frame is the sequence of its rows; a row is a record of its cells.

\* import_tcp_track_data: the rows of the raw file, London's country code
\* set to GB
import_tcp_track_data(raw) ==
    [i \in DOMAIN raw |->
        [raw[i] EXCEPT !.iso2_code = IF raw[i].city = "London" THEN "GB" ELSE @]]

\* the rows the CalSTA correction is for
IsCalsta(r) ==
    r.iso2_code = "US" /\ r.city = "CalSTA" /\ r.reference = CalstaReference

fix_calsta_project_dataAnyReference(frame) ==
    [i \in DOMAIN frame |->
        [frame[i] EXCEPT !.end_year =
            IF frame[i].iso2_code = "US" /\ frame[i].city = "CalSTA"
            THEN CalstaEndYear ELSE @]]

fix_calsta_project_data(frame) ==
    [i \in DOMAIN frame |->
        [frame[i] EXCEPT !.end_year = IF IsCalsta(frame[i]) THEN CalstaEndYear ELSE @]]

remove_non_metro(frame) == SelectSeq(frame, LAMBDA r : r.metro = "Metro")

\* reference_tables.csv cut down to the columns the run uses; one row per
\* country
ReferenceTables ==
    {[iso2_code |-> "FR", iso3_code |-> "FRA", development_status_2 |-> "Advanced"],
     [iso2_code |-> "GB", iso3_code |-> "GBR", development_status_2 |-> "Advanced"],
     [iso2_code |-> "US", iso3_code |-> "USA", development_status_2 |-> "Advanced"],
     [iso2_code |-> "CN", iso3_code |-> "CHN", development_status_2 |-> "China"]}

\* the cell of column col in the row of `table` whose key columns equal
\* those of `key`, a missing value when there is no such row (a left merge
\* with a table that has one row per key)
LeftCell(table, key, col, missing) ==
    LET hits == {t \in table : \A c \in DOMAIN key : t[c] = key[c]}
    IN IF hits = {} THEN missing ELSE (CHOOSE t \in hits : TRUE)[col]

\* pd.merge(left=df, right=ref, how="left", on="iso2_code")
add_reference_tables(frame, ref) ==
    [i \in DOMAIN frame |->
        LET key == [iso2_code |-> frame[i].iso2_code]
        IN frame[i] @@
           [iso3_code |-> LeftCell(ref, key, "iso3_code", "NaN"),
            development_status_2 |-> LeftCell(ref, key, "development_status_2", "NaN")]]

\* "UITP country-region mapping.csv", one row per country
UitpMapping ==
    {[iso3_code |-> "FRA", uitp_region |-> "Europe"],
     [iso3_code |-> "GBR", uitp_region |-> "Europe"],
     [iso3_code |-> "USA", uitp_region |-> "North America"],
     [iso3_code |-> "CHN", uitp_region |-> "Asia-Pacific"]}

\* pd.merge(left=df, right=mapping, how="left", on="iso3_code")
map_country_onto_uitp_region(frame, mapping) ==
    [i \in DOMAIN frame |->
        frame[i] @@
        [uitp_region |->
            LeftCell(mapping, [iso3_code |-> frame[i].iso3_code], "uitp_region", "NaN")]]

create_dev_status_3_column(frame) ==
    [i \in DOMAIN frame |->
        frame[i] @@
        [development_status_3 |->
            IF frame[i].development_status_2 = "Advanced" THEN "AE"
            ELSE IF frame[i].development_status_2 \in {"EMDE", "LDC", "China"} THEN "EMDE"
            ELSE "Error"]]

\* the melted exchange rates, year renamed start_year: a rate for EUR in
\* every year, none for another currency
ExchangeRates ==
    {[start_year |-> y, currency |-> "EUR", lcu_to_usd_xr |-> 1] :
        y \in (CutoffYear - 1)..CalstaEndYear}

\* df.merge(xr, on=["start_year", "currency"], how="left"), then
\* real_cost = cost * lcu_to_usd_xr
convert_to_usd(frame, xr) ==
    [i \in DOMAIN frame |->
        LET key == [start_year |-> frame[i].start_year, currency |-> frame[i].currency]
            rate == LeftCell(xr, key, "lcu_to_usd_xr", NaN)
        IN frame[i] @@
           [lcu_to_usd_xr |-> rate,
            real_cost |-> IF isna(rate) \/ isna(frame[i].cost) THEN NaN
                          ELSE frame[i].cost * rate]]

\* df.loc[~(d.lcu_to_usd_xr.isna())], then real_cost / 1000000
drop_unconverted(frame) ==
    LET kept == SelectSeq(frame, LAMBDA r : ~isna(r.lcu_to_usd_xr))
    IN [i \in DOMAIN kept |->
          [kept[i] EXCEPT !.real_cost = IF isna(@) THEN NaN ELSE @ \div Million]]

remove_data_without_start_end_yearStartOnly(frame) ==
    SelectSeq(frame, LAMBDA r : ~isna(r.start_year))

remove_data_without_start_end_year(frame) ==
    SelectSeq(SelectSeq(frame, LAMBDA r : ~isna(r.start_year)),
              LAMBDA r : ~isna(r.end_year))

\* df.loc[d.end_year >= 2010], then df.loc[~(d.cars.isna())]
cutoff_and_cars_filter(frame) ==
    SelectSeq(SelectSeq(frame, LAMBDA r : ~isna(r.end_year) /\ r.end_year >= CutoffYear),
              LAMBDA r : ~isna(r.cars))

\* ------------------------------------------------------------------------
\* Specification of fix_calsta_project_data as a function of its input

CalstaRecord ==
    [iso2_code  : {"US", "FR"},
     city       : {"CalSTA", "Paris"},
     reference  : {CalstaReference, "other"},
     start_year : {CalstaEndYear},
     end_year   : {CalstaEndYear - 1, CalstaEndYear, NaN}]

InitCalsta ==
    /\ pc = "fix_calsta"
    /\ PassIdle
    /\ MetroIdle
    /\ raw_df \in UNION {[1..n -> CalstaRecord] : n \in 1..MaxRecords}
    /\ df = <<>>
    /\ df_twice = <<>>
    /\ io_log = <<>>
    /\ dev_status_data = {}
    /\ df_new = <<>>
    /\ outcome = "pending"
    /\ records = <<>>
    /\ melted_df = {}
    /\ merged_cost_df = {}
    /\ regional_data = {}
    /\ track_cost = {}
    /\ df_merged = NoFrame
    /\ df_with_avg = NoFrame
    /\ df_refilled = NoFrame

FixCalsta ==
    /\ pc = "fix_calsta"
    /\ df' = fix_calsta_project_data(raw_df)
    /\ pc' = "fix_calsta_again"
    /\ UNCHANGED <<raw_df, df_twice, io_log, dev_status_data, df_new, outcome,
                   merged_cost_df, regional_data, divideVars, fillVars,
                   passVars, trackVars, metroVars>>

FixCalstaAgain ==
    /\ pc = "fix_calsta_again"
    /\ df_twice' = fix_calsta_project_data(df)
    /\ pc' = "fixed_twice"
    /\ UNCHANGED <<raw_df, df, io_log, dev_status_data, df_new, outcome,
                   merged_cost_df, regional_data, divideVars, fillVars,
                   passVars, trackVars, metroVars>>

NextCalsta == FixCalsta \/ FixCalstaAgain

SpecCalsta == InitCalsta /\ [][NextCalsta]_vars

\* ------------------------------------------------------------------------
\* Properties of fix_calsta_project_data (SpecCalsta)

\* C17: the correction sets end_year to 2027 in the rows of (US, CalSTA, the
\* named reference) and changes nothing else, and a second call changes
\* nothing.
C17_CalstaFixNarrowAndIdempotent ==
    /\ pc \in {"fix_calsta_again", "fixed_twice"} =>
          /\ DOMAIN df = DOMAIN raw_df
          /\ \A i \in DOMAIN raw_df :
                df[i] = IF IsCalsta(raw_df[i])
                        THEN [raw_df[i] EXCEPT !.end_year = CalstaEndYear]
                        ELSE raw_df[i]
    /\ pc = "fixed_twice" => df_twice = df

\* both calls were made on a frame that holds the mis-entered row and a row
\* of the same country and city with another reference and end_year 2026
C17_Witness ==
    /\ pc = "fixed_twice"
    /\ \E i, k \in DOMAIN raw_df :
          /\ IsCalsta(raw_df[i]) /\ raw_df[i].end_year = CalstaEndYear - 1
          /\ raw_df[k].iso2_code = "US" /\ raw_df[k].city = "CalSTA"
          /\ raw_df[k].reference # CalstaReference
          /\ raw_df[k].end_year = CalstaEndYear - 1


\* ------------------------------------------------------------------------
\* add_global_average (average_cost_of_cars.py)
\*
\* The cells of the appended rows are kept as tagged values [tag, num, den]
\* in lowest terms, because a mean of sums is a fraction.

\* the tagged value of an integer cell
Num(x) == [tag |-> "fraction", num |-> x, den |-> 1]

NanValue == [tag |-> "nan", num |-> 0, den |-> 0]

\* a tagged value in lowest terms
Norm(v) ==
    IF v.tag = "fraction"
    THEN LET g == Gcd(v.num, v.den)
         IN [tag |-> "fraction", num |-> v.num \div g, den |-> v.den \div g]
    ELSE [tag |-> v.tag, num |-> 0, den |-> 0]

\* a < b for two values that are not nan (denominators are positive)
Less(a, b) ==
    IF a.tag = "fraction" /\ b.tag = "fraction" THEN a.num * b.den < b.num * a.den
    ELSE IF a.tag = "-inf" THEN b.tag # "-inf"
    ELSE a.tag = "fraction" /\ b.tag = "inf"

\* the tagged value of column col of a row of the regional aggregate
AsValue(g, col) ==
    IF col \in {"cost_per_cars", "car_cost_per_km"} THEN g[col] ELSE Num(g[col])

MaxOf(f) ==
    LET present == {Norm(f[x]) : x \in {z \in DOMAIN f : f[z].tag # "nan"}}
    IN IF present = {} THEN NanValue
       ELSE CHOOSE m \in present : \A x \in present : ~Less(m, x)

\* groupby aggregation "min": the smallest cell, nan cells skipped
MinOf(f) ==
    LET present == {Norm(f[x]) : x \in {z \in DOMAIN f : f[z].tag # "nan"}}
    IN IF present = {} THEN NanValue
       ELSE CHOOSE m \in present : \A x \in present : ~Less(x, m)

\* groupby aggregation "mean": the sum of the cells over their number, nan
\* cells skipped
MeanOf(f) ==
    LET ok == {x \in DOMAIN f : f[x].tag # "nan"}
        total == FracSum([x \in {z \in ok : f[z].tag = "fraction"} |-> <<f[x].num, f[x].den>>])
    IN IF ok = {} THEN NanValue
       ELSE IF (\E x \in ok : f[x].tag = "inf") /\ (\E x \in ok : f[x].tag = "-inf")
            THEN NanValue
       ELSE IF \E x \in ok : f[x].tag = "inf" THEN [tag |-> "inf", num |-> 0, den |-> 0]
       ELSE IF \E x \in ok : f[x].tag = "-inf" THEN [tag |-> "-inf", num |-> 0, den |-> 0]
       ELSE Norm([tag |-> "fraction", num |-> total[1],
                  den |-> total[2] * Cardinality(ok)])

\* the aggregation `type` names, over column col of the rows
AggregateMinOnly(type, rows, col) == MinOf([g \in rows |-> AsValue(g, col)])

Aggregate(type, rows, col) ==
    IF type = "min" THEN MinOf([g \in rows |-> AsValue(g, col)])
    ELSE MeanOf([g \in rows |-> AsValue(g, col)])

\* the frame returned: the rows of df, then one row per distributed_year
\* labelled "global <type>"
add_global_average(table, type) ==
    LET years == {g.distributed_year : g \in table}
        OfYear(y) == {g \in table : g.distributed_year = y}
        global_avg ==
            {[uitp_region |-> IF type = "min" THEN "global min" ELSE "global mean",
              distributed_year |-> y,
              distributed_length |-> Aggregate(type, OfYear(y), "distributed_length"),
              distributed_cars |-> Aggregate(type, OfYear(y), "distributed_cars"),
              distributed_real_cost |-> Aggregate(type, OfYear(y), "distributed_real_cost"),
              car_cost_per_km |-> Aggregate(type, OfYear(y), "car_cost_per_km"),
              cost_per_cars |-> Aggregate(type, OfYear(y), "cost_per_cars")] :
                y \in years}
    IN <<table, global_avg>>

\* ------------------------------------------------------------------------
\* Specification of add_global_average as a function of its input

GlobalRegions == {"Europe", "MENA"}

\* the groups a regional aggregate can have
GlobalKeys == (GlobalRegions \X {CutoffYear}) \cup {<<"Europe", CutoffYear + 1>>}

\* the sums of a group: a group has a joined row, so its length is positive
GroupSums ==
    [distributed_length    : {1, 2},
     distributed_cars      : 0..MaxVal,
     distributed_real_cost : 0..MaxVal]

InitGlobal ==
    /\ pc = "add_global_average"
    /\ PassIdle
    /\ MetroIdle
    /\ \E keys \in SUBSET GlobalKeys :
         \E sums \in [keys -> GroupSums] :
            regional_data = {RegionalRow({sums[k]}, k) : k \in keys}
    /\ df_new = <<>>
    /\ raw_df = <<>>
    /\ io_log = <<>>
    /\ dev_status_data = {}
    /\ df_twice = <<>>
    /\ df = <<>>
    /\ merged_cost_df = {}
    /\ outcome = "pending"
    /\ records = <<>>
    /\ melted_df = {}
    /\ track_cost = {}
    /\ df_merged = NoFrame
    /\ df_with_avg = NoFrame
    /\ df_refilled = NoFrame

AddGlobalAverage ==
    /\ pc = "add_global_average"
    /\ \E type \in {"min", "mean"} : df_new' = add_global_average(regional_data, type)
    /\ pc' = "global_added"
    /\ UNCHANGED <<regional_data, raw_df, io_log, dev_status_data, df_twice, df,
                   merged_cost_df, outcome, divideVars, fillVars,
                   passVars, trackVars, metroVars>>

NextGlobal == AddGlobalAverage

SpecGlobal == InitGlobal /\ [][NextGlobal]_vars

\* ------------------------------------------------------------------------
\* Properties of the exported regional table (SpecGlobal)

\* the quotient of two tagged values
Quot(a, b) ==
    IF a.tag # "fraction" \/ b.tag # "fraction" THEN NanValue
    ELSE IF b.num # 0 THEN Norm([tag |-> "fraction", num |-> a.num * b.den,
                                 den |-> a.den * b.num])
    ELSE IF a.num > 0 THEN [tag |-> "inf", num |-> 0, den |-> 0]
    ELSE NanValue

\* the ratio fields of a regional row are the quotients of its own sums
RegionalRatiosHold(g) ==
    /\ IsQuotient(g.cost_per_cars, g.distributed_real_cost, g.distributed_cars)
    /\ IsQuotient(g.car_cost_per_km, g.distributed_real_cost, g.distributed_length)

\* C14 as stated: every row of the exported table, the appended global rows
\* included, has ratio fields equal to its own distributed_real_cost over its
\* own distributed_cars and distributed_length (stated for the tables whose
\* groups all have cars, so that every ratio is a number).
C14_RatioInvariantAllRows ==
    (pc = "global_added" /\ \A g \in df_new[1] : g.distributed_cars > 0) =>
        /\ \A g \in df_new[1] : RegionalRatiosHold(g)
        /\ \A a \in df_new[2] :
              /\ Norm(a.cost_per_cars) = Quot(a.distributed_real_cost, a.distributed_cars)
              /\ Norm(a.car_cost_per_km) = Quot(a.distributed_real_cost, a.distributed_length)

\* the regional rows of the year of an appended row
RegionalOfYear(a) == {g \in df_new[1] : g.distributed_year = a.distributed_year}

\* v is the smallest of the values of column col over the rows, nan skipped
IsMinOf(v, rows, col) ==
    LET present == {Norm(g[col]) : g \in {x \in rows : x[col].tag # "nan"}}
    IN IF present = {} THEN v.tag = "nan"
       ELSE v \in present /\ \A x \in present : ~Less(x, v)

\* v is the mean of the values of column col over the rows, when they are
\* all fractions
IsMeanOf(v, rows, col) ==
    (\A g \in rows : g[col].tag = "fraction") =>
        LET total == FracSum([g \in rows |-> <<g[col].num, g[col].den>>])
        IN v.tag = "fraction"
           /\ v.num * total[2] * Cardinality(rows) = total[1] * v.den

\* C14 amended: every regional row of the exported table has ratio fields
\* equal to its own distributed_real_cost over its own distributed_cars and
\* distributed_length; the ratio fields of an appended global row are the
\* min (the mean) of the ratio fields of the regional rows of its year.
C14_RatioInvariantRegionalRows ==
    pc = "global_added" =>
        /\ \A g \in df_new[1] : RegionalRatiosHold(g)
        /\ \A a \in df_new[2] :
              IF a.uitp_region = "global min"
              THEN /\ IsMinOf(a.cost_per_cars, RegionalOfYear(a), "cost_per_cars")
                   /\ IsMinOf(a.car_cost_per_km, RegionalOfYear(a), "car_cost_per_km")
              ELSE /\ IsMeanOf(a.cost_per_cars, RegionalOfYear(a), "cost_per_cars")
                   /\ IsMeanOf(a.car_cost_per_km, RegionalOfYear(a), "car_cost_per_km")

\* a global min row was appended for a year with two regions whose cost per
\* car differ and whose smallest cost and smallest cars come from different
\* regions
C14_Witness ==
    /\ pc = "global_added"
    /\ \E a \in df_new[2] :
          /\ a.uitp_region = "global min"
          /\ \E g, h \in RegionalOfYear(a) :
                /\ g.distributed_real_cost < h.distributed_real_cost
                /\ h.distributed_cars < g.distributed_cars
                /\ h.distributed_cars > 0
                /\ a.cost_per_cars # Quot(a.distributed_real_cost, a.distributed_cars)



\* the numeric columns of the regional aggregate
GlobalColumns ==
    {"distributed_length", "distributed_cars", "distributed_real_cost",
     "car_cost_per_km", "cost_per_cars"}

\* the cells of column col of the rows, as fractions
ColumnFractions(rows, col) ==
    [g \in rows |-> <<AsValue(g, col).num, AsValue(g, col).den>>]

\* C22: the frame returned holds the regional rows as they were and one
\* appended row per distributed_year, labelled "global min" ("global mean"),
\* whose every numeric cell is the min (the mean) of that column over the
\* regional rows of the year, each row counting once.
C22_OneGlobalRowPerYear ==
    pc = "global_added" =>
        /\ df_new[1] = regional_data
        /\ \A y \in {g.distributed_year : g \in regional_data} :
              Cardinality({a \in df_new[2] : a.distributed_year = y}) = 1
        /\ \A a \in df_new[2] :
              /\ a.uitp_region \in {"global min", "global mean"}
              /\ RegionalOfYear(a) # {}
              /\ \A col \in GlobalColumns :
                    IF a.uitp_region = "global min"
                    THEN LET present == {Norm(AsValue(g, col)) :
                                           g \in {x \in RegionalOfYear(a) :
                                                    AsValue(x, col).tag # "nan"}}
                         IN IF present = {} THEN a[col].tag = "nan"
                            ELSE a[col] \in present /\ \A x \in present : ~Less(x, a[col])
                    ELSE (\A g \in RegionalOfYear(a) : AsValue(g, col).tag = "fraction") =>
                            LET total == FracSum(ColumnFractions(RegionalOfYear(a), col))
                            IN /\ a[col].tag = "fraction"
                               /\ a[col].num * total[2] * Cardinality(RegionalOfYear(a))
                                     = total[1] * a[col].den
        /\ \A a, b \in df_new[2] : a.uitp_region = b.uitp_region

\* global mean rows were appended for two years, one of them a year with two
\* regions whose cars differ
C22_Witness ==
    /\ pc = "global_added"
    /\ Cardinality(df_new[2]) = 2
    /\ \E a \in df_new[2] :
          /\ a.uitp_region = "global mean"
          /\ \E g, h \in RegionalOfYear(a) : g.distributed_cars # h.distributed_cars

\* ------------------------------------------------------------------------
\* Specification of a whole run of tcp_rolling_stock_pipeline
\* (average_cost_of_cars.py)

\* a metro project of one year with every cell present
PlainRecord ==
    [iso2_code |-> "FR", city |-> "Paris", reference |-> "other", metro |-> "Metro",
     currency |-> "EUR", start_year |-> CutoffYear, end_year |-> CutoffYear,
     cars |-> 1, length |-> 1, cost |-> Million]

\* the rows a raw file can hold: the plain record, and the records that
\* differ from it in the cells one step of the run looks at
RunRecord ==
    {PlainRecord,
     [PlainRecord EXCEPT !.end_year = CutoffYear + 1],
     [PlainRecord EXCEPT !.start_year = CutoffYear + 1],
     [PlainRecord EXCEPT !.start_year = CutoffYear - 1, !.end_year = CutoffYear - 1],
     [PlainRecord EXCEPT !.start_year = NaN],
     [PlainRecord EXCEPT !.end_year = NaN],
     [PlainRecord EXCEPT !.cars = NaN],
     [PlainRecord EXCEPT !.currency = "XXX"],
     [PlainRecord EXCEPT !.metro = "Light rail"],
     [PlainRecord EXCEPT !.iso2_code = "UK", !.city = "London"],
     [PlainRecord EXCEPT !.iso2_code = "CN", !.city = "Beijing"],
     [PlainRecord EXCEPT !.iso2_code = "XK", !.city = "Pristina"],
     [PlainRecord EXCEPT !.iso2_code = "US", !.city = "CalSTA",
                         !.reference = CalstaReference,
                         !.start_year = CalstaEndYear, !.end_year = CalstaEndYear - 1]}

\* an entry of the log: a table read, a step of normalisation, a step of the
\* core computation (distribution, join, aggregation), a line printed, a
\* table written
Event(kind, what) == [kind |-> kind, what |-> what]

\* the lines divide_across_years prints for one variable
Prints(var) ==
    <<Event("print", "Total before " \o var \o " distribution"),
      Event("print", "Total after " \o var \o " distribution")>>

\* df.groupby(by=["development_status_3", "distributed_year"])[...].sum() and
\* the two ratios; the status of a joined row is that of its record
GroupByDevStatusYear(frame, rows) ==
    LET keys == {<<frame[j.rec].development_status_3, j.distributed_year>> : j \in rows}
        Row(key) ==
            LET g == RegionalRow({j \in rows :
                                    <<frame[j.rec].development_status_3,
                                      j.distributed_year>> = key}, key)
            IN [development_status_3 |-> key[1],
                distributed_year |-> key[2],
                distributed_length |-> g.distributed_length,
                distributed_cars |-> g.distributed_cars,
                distributed_real_cost |-> g.distributed_real_cost,
                cost_per_cars |-> g.cost_per_cars,
                car_cost_per_km |-> g.car_cost_per_km]
    IN {Row(key) : key \in keys}

InitRun ==
    /\ pc = "import"
    /\ PassIdle
    /\ MetroIdle
    /\ raw_df \in UNION {[1..n -> RunRecord] : n \in 1..MaxRecords}
    /\ io_log = <<>>
    /\ df = <<>>
    /\ merged_cost_df = {}
    /\ dev_status_data = {}
    /\ regional_data = {}
    /\ df_new = <<>>
    /\ df_twice = <<>>
    /\ outcome = "pending"
    /\ records = <<>>
    /\ melted_df = {}
    /\ track_cost = {}
    /\ df_merged = NoFrame
    /\ df_with_avg = NoFrame
    /\ df_refilled = NoFrame

\* what a step of the run before the distributor leaves alone
RunFrameStepUnchanged ==
    UNCHANGED <<raw_df, merged_cost_df, dev_status_data, regional_data, df_new,
                df_twice, outcome, divideVars, fillVars,
                   passVars, trackVars, metroVars>>

ImportData ==
    /\ pc = "import"
    /\ df' = fix_calsta_project_data(import_tcp_track_data(raw_df))
    /\ io_log' = io_log \o <<Event("read", "rolling_stock_cost_tcp_raw.csv"),
                             Event("normalize", "fix_calsta_project_data")>>
    /\ pc' = "remove_non_metro"
    /\ RunFrameStepUnchanged

RemoveNonMetro ==
    /\ pc = "remove_non_metro"
    /\ df' = remove_non_metro(df)
    /\ io_log' = Append(io_log, Event("normalize", "remove_non_metro"))
    /\ pc' = "add_reference_tables"
    /\ RunFrameStepUnchanged

AddReferenceTables ==
    /\ pc = "add_reference_tables"
    /\ df' = add_reference_tables(df, ReferenceTables)
    /\ io_log' = io_log \o <<Event("read", "reference_tables.csv"),
                             Event("normalize", "add_reference_tables")>>
    /\ pc' = "map_country_onto_uitp_region"
    /\ RunFrameStepUnchanged

MapCountryOntoUitpRegion ==
    /\ pc = "map_country_onto_uitp_region"
    /\ df' = map_country_onto_uitp_region(df, UitpMapping)
    /\ io_log' = io_log \o <<Event("read", "UITP country-region mapping.csv"),
                             Event("normalize", "map_country_onto_uitp_region")>>
    /\ pc' = "create_dev_status_3_column"
    /\ RunFrameStepUnchanged

CreateDevStatus3Column ==
    /\ pc = "create_dev_status_3_column"
    /\ df' = create_dev_status_3_column(df)
    /\ io_log' = Append(io_log, Event("normalize", "create_dev_status_3_column"))
    /\ pc' = "convert_to_usd"
    /\ RunFrameStepUnchanged

ConvertToUsd ==
    /\ pc = "convert_to_usd"
    /\ df' = convert_to_usd(df, ExchangeRates)
    /\ io_log' = io_log \o <<Event("read", "Exchange Rates.csv"),
                             Event("normalize", "convert_to_usd")>>
    /\ pc' = "drop_unconverted"
    /\ RunFrameStepUnchanged

DropUnconverted ==
    /\ pc = "drop_unconverted"
    /\ df' = drop_unconverted(df)
    /\ io_log' = Append(io_log, Event("normalize", "drop_unconverted"))
    /\ pc' = "remove_data_without_start_end_year"
    /\ RunFrameStepUnchanged

RemoveDataWithoutStartEndYear ==
    /\ pc = "remove_data_without_start_end_year"
    /\ df' = remove_data_without_start_end_year(df)
    /\ io_log' = Append(io_log, Event("normalize", "remove_data_without_start_end_year"))
    /\ pc' = "cutoff_and_cars_filter"
    /\ RunFrameStepUnchanged

CutoffAndCarsFilter ==
    /\ pc = "cutoff_and_cars_filter"
    /\ df' = cutoff_and_cars_filter(df)
    /\ io_log' = Append(io_log, Event("normalize", "cutoff_and_cars_filter"))
    /\ pc' = "distribute_all_columns_over_years"
    /\ RunFrameStepUnchanged

\* the distributor, on the frame the filters left
RunDistributor ==
    /\ pc = "distribute_all_columns_over_years"
    /\ \E cast \in CastOutcomes(df) :
         LET res == distribute_all_columns_over_years(df, cast)
         IN /\ outcome' = res.outcome
            /\ merged_cost_df' = res.rows
            /\ pc' = IF res.outcome = "returned" THEN "dev_status_data" ELSE "failed"
    /\ io_log' = io_log \o Prints("cars") \o Prints("length") \o Prints("real_cost")
                        \o <<Event("compute", "distribute_all_columns_over_years")>>
    /\ UNCHANGED <<raw_df, df, dev_status_data, regional_data, df_new, df_twice,
                   divideVars, fillVars, passVars, trackVars, metroVars>>

\* the aggregate by development status, its ratios and its export
DevStatusExport ==
    /\ pc = "dev_status_data"
    /\ dev_status_data' = GroupByDevStatusYear(df, merged_cost_df)
    /\ io_log' = io_log \o <<Event("compute", "dev_status_data"),
                             Event("write", "dev_status_cost_per_car.csv")>>
    /\ pc' = "regional_data"
    /\ UNCHANGED <<raw_df, df, merged_cost_df, regional_data, df_new, df_twice,
                   outcome, divideVars, fillVars,
                   passVars, trackVars, metroVars>>

\* the aggregate by region, its ratios, the global minimum rows and the
\* export
RegionalExport ==
    /\ pc = "regional_data"
    /\ regional_data' = GroupByRegionYear(merged_cost_df)
    /\ df_new' = add_global_average(GroupByRegionYear(merged_cost_df), "min")
    /\ io_log' = io_log \o <<Event("compute", "regional_data"),
                             Event("compute", "add_global_average"),
                             Event("write", "regional_cost_per_car.csv")>>
    /\ pc' = "done"
    /\ UNCHANGED <<raw_df, df, merged_cost_df, dev_status_data, df_twice,
                   outcome, divideVars, fillVars,
                   passVars, trackVars, metroVars>>

NextRun ==
    \/ ImportData
    \/ RemoveNonMetro
    \/ AddReferenceTables
    \/ MapCountryOntoUitpRegion
    \/ CreateDevStatus3Column
    \/ ConvertToUsd
    \/ DropUnconverted
    \/ RemoveDataWithoutStartEndYear
    \/ CutoffAndCarsFilter
    \/ RunDistributor
    \/ DevStatusExport
    \/ RegionalExport

SpecRun == InitRun /\ [][NextRun]_vars


\* ------------------------------------------------------------------------
\* Properties of the whole run (SpecRun)

\* the frame convert_to_usd is called on, from the raw file
BeforeConversion ==
    create_dev_status_3_column(
        map_country_onto_uitp_region(
            add_reference_tables(
                remove_non_metro(fix_calsta_project_data(import_tcp_track_data(raw_df))),
                ReferenceTables),
            UitpMapping))

\* the exchange-rate table has an entry for the record's start_year and
\* currency
HasRate(r) ==
    \E x \in ExchangeRates : x.start_year = r.start_year /\ x.currency = r.currency

\* the records without an exchange rate
Unmatched == {i \in DOMAIN BeforeConversion : ~HasRate(BeforeConversion[i])}

PastConversion ==
    pc \in {"remove_data_without_start_end_year", "cutoff_and_cars_filter",
            "distribute_all_columns_over_years", "dev_status_data", "regional_data",
            "done"}

\* C13: once the unconverted rows are dropped, no record without an exchange
\* rate is left in the frame, and when there were such records the run has
\* recorded their number.
C13_ExclusionTraced ==
    (PastConversion /\ Unmatched # {}) =>
        /\ \A i \in DOMAIN df : HasRate(df[i])
        /\ \E k \in DOMAIN io_log :
              io_log[k].kind = "count" /\ io_log[k].what = Cardinality(Unmatched)

\* C16: every record the distributor is called on has end_year >= start_year,
\* the rows of the CalSTA correction apart.
C16_EndNotBeforeStart ==
    pc = "distribute_all_columns_over_years" =>
        \A i \in DOMAIN df : IsCalsta(df[i]) \/ df[i].end_year >= df[i].start_year

\* C18: no table is read or written between two steps of the core
\* computation.
C18_NoTableAccessBetweenComputations ==
    \A i, m, k \in DOMAIN io_log :
        (i < m /\ m < k /\ io_log[i].kind = "compute" /\ io_log[k].kind = "compute")
            => io_log[m].kind \notin {"read", "write"}

\* the frame remove_data_without_start_end_year is called on, from the raw
\* file
BeforeRemoval == drop_unconverted(convert_to_usd(BeforeConversion, ExchangeRates))

\* C20: remove_data_without_start_end_year returns the rows that have both
\* start_year and end_year, unchanged and in their order, and no record the
\* distributor is called on has an end_year before 2010.
C20_MissingYearsRemovedAndCutoff ==
    /\ pc = "cutoff_and_cars_filter" =>
          df = SelectSeq(BeforeRemoval, LAMBDA r : r.start_year # NaN /\ r.end_year # NaN)
    /\ pc \in {"distribute_all_columns_over_years", "dev_status_data",
               "regional_data", "done"} =>
          \A i \in DOMAIN df : df[i].end_year # NaN /\ df[i].end_year >= CutoffYear

\* the distributor is reached in a run whose frame held, before the removal,
\* a row without end_year and a row that ends before 2010
C20_Witness ==
    /\ pc = "distribute_all_columns_over_years"
    /\ \E i, k \in DOMAIN BeforeRemoval :
          /\ BeforeRemoval[i].end_year = NaN
          /\ BeforeRemoval[k].end_year # NaN /\ BeforeRemoval[k].end_year < CutoffYear


\* C25: development_status_3 is "AE" for Advanced and "EMDE" for EMDE, LDC
\* and China, and every group of the development-status table written is AE
\* or EMDE.
C25_BinaryDevelopmentStatus ==
    /\ pc \in {"convert_to_usd", "drop_unconverted"} =>
          \A i \in DOMAIN df :
              /\ df[i].development_status_2 = "Advanced" =>
                    df[i].development_status_3 = "AE"
              /\ df[i].development_status_2 \in {"EMDE", "LDC", "China"} =>
                    df[i].development_status_3 = "EMDE"
    /\ pc \in {"regional_data", "done"} =>
          \A g \in dev_status_data : g.development_status_3 \in {"AE", "EMDE"}


\* ------------------------------------------------------------------------
\* Specification of the passes of distribute_all_columns_over_years

\* the frames of the mapped records
PassFrames(n) ==
    {frame \in SortedFrames(n) : \A i \in 1..n : frame[i].uitp_region # "NaN"}

InitPasses ==
    /\ pc = "distribute_passes"
    /\ PassIdle
    /\ MetroIdle
    /\ RunIdle
    /\ \E n \in 1..MaxRecords : df \in PassFrames(n)
    /\ merged_cost_df = {}
    /\ regional_data = {}
    /\ records = <<>>
    /\ melted_df = {}
    /\ outcome = "pending"
    /\ track_cost = {}
    /\ df_merged = NoFrame
    /\ df_with_avg = NoFrame
    /\ df_refilled = NoFrame

\* the distributor, with the frame of each pass and the year columns the
\* frame it was given has afterwards
DistributePasses ==
    /\ pc = "distribute_passes"
    /\ \E cast \in CastOutcomes(df) :
         LET res == distribute_all_columns_over_years(df, cast)
             passes == DistributorPasses(df, year_columns, cast)
         IN /\ outcome' = res.outcome
            /\ merged_cost_df' = res.rows
            /\ pc' = IF res.outcome = "returned" THEN "passes_done" ELSE "failed"
            /\ IF res.outcome = "returned"
               THEN /\ cars_pass' = passes.df_cars
                    /\ length_pass' = passes.df_length
                    /\ real_cost_pass' = passes.df_real_cost
                    /\ year_columns' = passes.year_columns
               ELSE UNCHANGED <<cars_pass, length_pass, real_cost_pass, year_columns>>
    /\ UNCHANGED <<df, regional_data, divideVars, fillVars, runVars,
                   trackVars, metroVars>>

NextPasses == DistributePasses

SpecPasses == InitPasses /\ [][NextPasses]_vars

\* ------------------------------------------------------------------------
\* Properties of the distributor's passes (SpecPasses)

\* the frame a call of divide_across_years for var alone returns, on a
\* frame of its own with the records and the year columns of df
PassAlone(var) ==
    [rows |-> divide_across_years(df, var, 0).rows, id_year_columns |-> year_columns]

TrackMergeCols ==
    {"iso2_code", "city", "line", "phase", "start_year", "end_year", "rr", "length",
     "tunnelper", "tunnel", "elevated", "atgrade", "stations",
     "platform_length_meters", "source1", "cost", "currency", "midpoint_year",
     "ppp_rate", "real_cost", "cost_km_millions", "anglo", "inflation_index",
     "real_cost_2023_dollars", "cost_km_2023_dollars", "source2", "reference1",
     "reference2", "reference3", "comments", "country_cpi", "region_cpi",
     "development_status_2", "development_status_3", "iso3_code", "lcu_to_usd_xr"}

TrackMergeKey(frame, row) ==
    <<[c \in TrackMergeCols \cap DOMAIN frame[row.rec] |-> frame[row.rec][c]],
      row.distributed_year>>

\* cost_km.merge(cost_len, how="left", on=[...]): the rows of the real_cost
\* pass, each with the distributed length of the rows of the length pass
\* that have the same key
distribute_track_columns_over_years(frame, cast) ==
    LET cost_km == divide_across_years(frame, "real_cost", cast)
        cost_len == divide_across_years(frame, "length", cast)
        merged == LeftMerge(cost_km.rows, cost_len.rows,
                            [l \in cost_km.rows |-> TrackMergeKey(frame, l)],
                            [r \in cost_len.rows |-> TrackMergeKey(frame, r)])
    IN IF cost_km.outcome # "returned" \/ cost_len.outcome # "returned"
       THEN [outcome |-> "MemoryError", rows |-> {}]
       ELSE [outcome |-> "returned",
             rows |-> {[rec |-> t[1].rec,
                        distributed_year |-> t[1].distributed_year,
                        distributed_real_cost |-> t[1].distributed,
                        length_rec |-> t[2].rec,
                        distributed_length |-> t[2].distributed] : t \in merged}]

cutoff_whole_projects(frame, rows) ==
    {j \in rows : frame[j.rec].end_year >= CutoffYear}

\* cost.loc[lambda d: d.distributed_year >= 2010]
cutoff_distributed_year(frame, rows) ==
    {j \in rows : j.distributed_year >= CutoffYear}

\* groupby(by)[["distributed_real_cost", "distributed_length"]].sum() and
\* cost_per_km_distributed; key_of gives the cells of each joined row in the
\* text columns of `by`, the last column of `by` is distributed_year; rows
\* with a NaN in the key are left out
TrackGroupBy(rows, key_of) ==
    LET keyed == {j \in rows : \A n \in DOMAIN key_of[j] : key_of[j][n] # "NaN"}
        KeyWithYear(j) == [by |-> key_of[j], distributed_year |-> j.distributed_year]
        Row(key) ==
            LET group == {j \in keyed : KeyWithYear(j) = key}
                cost == ColSum(group, "distributed_real_cost")
                len == ColSum(group, "distributed_length")
            IN [by |-> key.by,
                distributed_year |-> key.distributed_year,
                distributed_real_cost |-> cost,
                distributed_length |-> len,
                cost_per_km_distributed |-> FloatDiv(cost, len)]
    IN {Row(key) : key \in {KeyWithYear(j) : j \in keyed}}

\* the uitp_region of a joined row: map_country_onto_uitp_region runs on the
\* distributed frame
RegionOfRow(frame, j) ==
    LeftCell(UitpMapping, [iso3_code |-> frame[j.rec].iso3_code], "uitp_region", "NaN")

\* ------------------------------------------------------------------------
\* Specification of the track pipeline from the distributor on

\* the years of the track projects, on both sides of the cutoff
TrackYears == (CutoffYear - 1)..(CutoffYear + 1)

\* the records that reach the distributor: both bounds and real_cost
\* present, length may be missing
TrackRecord ==
    {r \in [start_year : TrackYears,
            end_year : TrackYears,
            real_cost : {1},
            length : {NaN, 1},
            iso3_code : {"FRA", "CHN"},
            development_status_3 : {"AE", "EMDE"}] :
        /\ r.start_year <= r.end_year
        /\ r.end_year - r.start_year < MaxSpan
        /\ (r.development_status_3 = "AE") = (r.iso3_code = "FRA")}

TrackRecordRank(r) ==
    (((IF r.iso3_code = "FRA" THEN 0 ELSE 1) * 2
        + (IF isna(r.length) THEN 0 ELSE 1)) * 3
        + (r.start_year - CutoffYear + 1)) * 3 + (r.end_year - CutoffYear + 1)

\* the frames of n records, one per multiset of records
SortedTrackFrames(n) ==
    {frame \in [1..n -> TrackRecord] :
        \A i \in 1..(n - 1) : TrackRecordRank(frame[i]) <= TrackRecordRank(frame[i + 1])}

InitTrack ==
    /\ pc = "track_distribute"
    /\ PassIdle
    /\ MetroIdle
    /\ RunIdle
    /\ \E n \in 1..MaxRecords : df \in SortedTrackFrames(n)
    /\ merged_cost_df = {}
    /\ regional_data = {}
    /\ records = <<>>
    /\ melted_df = {}
    /\ outcome = "pending"
    /\ track_cost = {}
    /\ df_merged = NoFrame
    /\ df_with_avg = NoFrame
    /\ df_refilled = NoFrame

TrackDistribute ==
    /\ pc = "track_distribute"
    /\ \E cast \in CastOutcomes(df) :
         LET res == distribute_track_columns_over_years(df, cast)
         IN /\ outcome' = res.outcome
            /\ merged_cost_df' = res.rows
            /\ pc' = IF res.outcome = "returned" THEN "track_cutoff" ELSE "failed"
    /\ UNCHANGED <<df, regional_data, divideVars, fillVars, runVars,
                   passVars, trackVars, metroVars>>

TrackCutoff ==
    /\ pc = "track_cutoff"
    /\ merged_cost_df' = cutoff_distributed_year(df, merged_cost_df)
    /\ pc' = "track_dev_status"
    /\ UNCHANGED <<df, regional_data, outcome, divideVars, fillVars, runVars,
                   passVars, trackVars, metroVars>>

TrackDevStatusExport ==
    /\ pc = "track_dev_status"
    /\ dev_status_data' =
          TrackGroupBy(merged_cost_df,
                       [j \in merged_cost_df |-> <<df[j.rec].development_status_3>>])
    /\ pc' = "track_regional"
    /\ UNCHANGED <<df, merged_cost_df, regional_data, outcome, raw_df, io_log, df_new,
                   df_twice, divideVars, fillVars, passVars, trackVars, metroVars>>

TrackRegionalExport ==
    /\ pc = "track_regional"
    /\ regional_data' =
          TrackGroupBy(merged_cost_df,
                       [j \in merged_cost_df |-> <<RegionOfRow(df, j)>>])
    /\ pc' = "track_country"
    /\ UNCHANGED <<df, merged_cost_df, outcome, divideVars, fillVars, runVars,
                   passVars, trackVars, metroVars>>

\* the country of a record is carried as its iso3_code
TrackCountryExport ==
    /\ pc = "track_country"
    /\ country_data' =
          TrackGroupBy(merged_cost_df,
                       [j \in merged_cost_df |->
                          <<df[j.rec].iso3_code, df[j.rec].development_status_3>>])
    /\ pc' = "track_done"
    /\ UNCHANGED <<df, merged_cost_df, regional_data, outcome, divideVars, fillVars,
                   runVars, passVars, metroVars>>

NextTrack ==
    \/ TrackDistribute
    \/ TrackCutoff
    \/ TrackDevStatusExport
    \/ TrackRegionalExport
    \/ TrackCountryExport

SpecTrack == InitTrack /\ [][NextTrack]_vars

\* ------------------------------------------------------------------------
\* Properties of the track pipeline (SpecTrack)

\* the record straddles the cutoff
Straddles(r) == r.start_year < CutoffYear /\ r.end_year >= CutoffYear

\* C26: every row of the three tables written has distributed_year >= 2010;
\* the joined rows that are aggregated are, for every project, rows of the
\* years of its span from 2010 on, one year at least for each, every row
\* with real_cost / (end_year - start_year + 1); and the cost of a group is
\* the sum of those rows.
C26_CutoffAfterProRation ==
    pc = "track_done" =>
        /\ \A g \in dev_status_data \cup regional_data \cup country_data :
              g.distributed_year >= CutoffYear
        /\ \A i \in DOMAIN df :
              /\ {j.distributed_year : j \in {x \in merged_cost_df : x.rec = i}}
                    = {y \in df[i].start_year..df[i].end_year : y >= CutoffYear}
              /\ \A j \in merged_cost_df :
                    j.rec = i =>
                       j.distributed_real_cost * (df[i].end_year - df[i].start_year + 1)
                          = df[i].real_cost * Scale
        /\ \A g \in regional_data :
              g.distributed_real_cost
                 = SumFn([j \in {x \in merged_cost_df :
                                   /\ <<RegionOfRow(df, x)>> = g.by
                                   /\ x.distributed_year = g.distributed_year} |->
                             j.distributed_real_cost])

\* the run wrote its tables for a frame with a project that began before
\* 2010 and ended later, and one of the rows written holds exactly its share
\* of one year
C26_Witness ==
    /\ pc = "track_done"
    /\ \E i \in DOMAIN df :
          /\ Straddles(df[i])
          /\ \E g \in regional_data :
                /\ g.distributed_year = CutoffYear
                /\ g.distributed_real_cost * 2 = df[i].real_cost * Scale


\* ------------------------------------------------------------------------
\* metro_costs_pipeline (metro_costs.py)
\*
\* A frame is [columns, rows]; a row is a function from the column names to
\* cells and carries the label it has in the frame's index as the cell
\* "index", so that two rows with equal cells stay two rows.  The order of
\* the rows is not kept: no step reads it, and sort_values only changes it.
\* new_track_length is in units of 1 / LengthScale km and a cost per km in
\* units of 1 / CostScale, so that the means are whole numbers.

\* the years a UITP table can have a row for
UitpYears == {2013, 2014, 2016, 2017, 2018, 2021}

\* the first year of the average of estimate_future_years
AverageFromYear == 2017

\* the year calculate_new_track_length removes
FirstUitpYear == 2013

\* years_to_extrapolate
YearsToExtrapolate == {2021, 2022, 2023}

LengthScale == LcmUpTo(Cardinality({y \in UitpYears : y >= AverageFromYear}))

\* the regions of the cost tables of the model
MetroRegions == {"Europe", "MENA"}

CostScale == LcmUpTo(Cardinality(MetroRegions))

\* a - b and a * b on cells; NaN when a cell is NaN
Minus(a, b) == IF isna(a) \/ isna(b) THEN NaN ELSE a - b
Times(a, b) == IF isna(a) \/ isna(b) THEN NaN ELSE a * b
Plus(a, b) == IF isna(a) \/ isna(b) THEN NaN ELSE a + b

\* Series.mean() of the cells: NaN cells skipped, NaN when nothing is left
MeanCell(f) ==
    LET present == {x \in DOMAIN f : ~isna(f[x])}
    IN IF present = {} THEN NaN
       ELSE SumFn([x \in present |-> f[x]]) \div Cardinality(present)

\* the region columns of the raw table that the model carries, with the
\* name each has after the rename
UitpColumns == {"Europe", "MENA-Africa", "Total"}
RenamedColumn(c) == IF c = "MENA-Africa" THEN "MENA" ELSE c

\* rename, melt into (year, uitp_region, length_of_track), drop "Total"
clean_uitp(raw) ==
    LET df_melted == {[index |-> <<"uitp", RenamedColumn(c), w["Year"]>>,
                       year |-> w["Year"],
                       uitp_region |-> RenamedColumn(c),
                       length_of_track |-> w[c]] : w \in raw, c \in UitpColumns}
    IN [columns |-> {"index", "year", "uitp_region", "length_of_track"},
        rows |-> {r \in df_melted : r.uitp_region # "Total"}]

\* the left merge with the frame of the year before, the difference, and
\* the removal of the rows of 2013
calculate_new_track_length(frame) ==
    LET Prior(l) == {r \in frame.rows : r.year + 1 = l.year /\ r.uitp_region = l.uitp_region}
        merged == {<<p[1], p[2].length_of_track>> :
                      p \in {q \in frame.rows \X frame.rows : q[2] \in Prior(q[1])}}
                  \cup {<<l, NaN>> : l \in {x \in frame.rows : Prior(x) = {}}}
    IN [columns |-> {"index", "year", "uitp_region", "new_track_length"},
        rows |-> {r \in {[index |-> m[1].index,
                          year |-> m[1].year,
                          uitp_region |-> m[1].uitp_region,
                          new_track_length |->
                              Times(Minus(m[1].length_of_track, m[2]), LengthScale)] :
                            m \in merged} : r.year # FirstUitpYear}]

estimate_future_yearsAllYears(frame, years) ==
    LET df_avg == frame.rows
        Avg(region) == MeanCell([r \in {x \in df_avg : x.uitp_region = region} |->
                                    r.new_track_length])
        new_rows == {[index |-> <<"estimate", region, y>>,
                      year |-> y,
                      uitp_region |-> region,
                      new_track_length |-> Avg(region)] :
                        region \in {r.uitp_region : r \in df_avg}, y \in years}
    IN [columns |-> frame.columns, rows |-> frame.rows \cup new_rows]

\* the mean of new_track_length by region over the rows from 2017 on, a new
\* row per region and requested year, appended to the frame
estimate_future_years(frame, years) ==
    LET df_avg == {r \in frame.rows : r.year >= AverageFromYear}
        Avg(region) == MeanCell([r \in {x \in df_avg : x.uitp_region = region} |->
                                    r.new_track_length])
        new_rows == {[index |-> <<"estimate", region, y>>,
                      year |-> y,
                      uitp_region |-> region,
                      new_track_length |-> Avg(region)] :
                        region \in {r.uitp_region : r \in df_avg}, y \in years}
    IN [columns |-> frame.columns, rows |-> frame.rows \cup new_rows]

\* track_cost.rename(columns={"distributed_year": "year"})
rename_distributed_year(table) ==
    {[uitp_region |-> t.uitp_region,
      year |-> t.distributed_year,
      cost_per_km_distributed |-> t.cost_per_km_distributed] : t \in table}

\* the frame with column col = new_track_length * cost_per_km_distributed,
\* cut down to the columns `keep` and col
WithCost(frame, col, keep) ==
    [columns |-> keep \cup {col},
     rows |-> {[c \in keep \cup {col} |->
                  IF c = col
                  THEN Times(r["new_track_length"], r["cost_per_km_distributed"])
                  ELSE r[c]] : r \in frame.rows}]

\* the merge with the track cost table on (year, uitp_region) and the
\* product
estimate_track_costs(frame, table) ==
    WithCost(MergeTrackCost(frame, rename_distributed_year(table)),
             "new_track_track_costs", frame.columns)

\* the columns estimate_rolling_stock_costs keeps
RollingStockCols ==
    {"index", "year", "uitp_region", "rolling_stock_cost_desc", "new_track_length",
     "new_track_track_costs"}

\* the merge with the rolling-stock cost table, the gap filler and the
\* product; df_merged is the frame passed to the gap filler and df_with_avg
\* the frame it returned
estimate_rolling_stock_costs(frame, table) ==
    LET track_cost_read == rename_distributed_year(table)
        merged == MergeTrackCost(frame, track_cost_read)
        filled == fill_gaps_with_global_average(merged, track_cost_read)
    IN [outcome |-> filled.outcome,
        df_merged |-> merged,
        df_with_avg |-> filled.frame,
        frame |-> IF filled.outcome = "returned"
                  THEN WithCost(filled.frame, "new_track_rolling_stock_costs",
                                RollingStockCols)
                  ELSE NoFrame]

\* df["value_USDm"] = df["new_track_track_costs"] + df["new_track_rolling_stock_costs"]
value_USDm(frame) ==
    [columns |-> frame.columns \cup {"value_USDm"},
     rows |-> {[c \in frame.columns \cup {"value_USDm"} |->
                  IF c = "value_USDm"
                  THEN Plus(r["new_track_track_costs"], r["new_track_rolling_stock_costs"])
                  ELSE r[c]] : r \in frame.rows}]

\* add_global_average of tcp_rolling_costs.py, on the column the consumer
\* reads: a row per distributed_year labelled "global average" with the mean
\* of the regional rows of the year
tcp_rolling_costs_add_global_average(table) ==
    table \cup
    {[uitp_region |-> "global average",
      distributed_year |-> y,
      cost_per_km_distributed |->
          MeanCell([t \in {x \in table : x.distributed_year = y} |->
                       t.cost_per_km_distributed])] :
        y \in {t.distributed_year : t \in table}}


\* ------------------------------------------------------------------------
\* Specification of metro_costs_pipeline

\* the lengths a cell of the Europe column can hold
UitpLengths == {NaN, 1, 3}

\* a row of the raw UITP table: the Europe cell is free, MENA-Africa grows
\* by one km a year, Total is the sum of the cells present
UitpRow(y, europe) ==
    [c \in UitpColumns \cup {"Year"} |->
        IF c = "Year" THEN y
        ELSE IF c = "Europe" THEN europe
        ELSE IF c = "MENA-Africa" THEN y - 2010
        ELSE (IF isna(europe) THEN 0 ELSE europe) + (y - 2010)]

\* the raw tables: one row per year, for up to three years
UitpTables ==
    {{UitpRow(y, europe[y]) : y \in S} :
        S \in {T \in SUBSET UitpYears : Cardinality(T) \in 1..3},
        europe \in [UitpYears -> UitpLengths]}

\* the years the cost tables of the model have rows for
CostTableYears == {2018, 2022}

\* the rows a regional aggregation wrote for the regions: one row per
\* (region, year), each region with a cost per km of its own
RegionalCostRows(regions) ==
    {[uitp_region |-> r,
      distributed_year |-> y,
      cost_per_km_distributed |->
          CostScale * (IF r = "Europe" THEN 1 ELSE IF r = "MENA" THEN 2 ELSE 3)] :
        r \in regions, y \in CostTableYears}

InitMetro ==
    /\ pc = "clean_uitp"
    /\ PassIdle
    /\ RunIdle
    /\ uitp \in UitpTables
    /\ metro_df = NoFrame
    /\ \E regions \in {{}, {"Europe"}, {"Europe", "MENA"}} :
          regional_cost_track_per_km = RegionalCostRows(regions)
    /\ \E regions \in {{}, {"Europe", "MENA"}, {"MENA", "Asia-Pacific"}} :
          regional_cars_cost_per_km =
              tcp_rolling_costs_add_global_average(RegionalCostRows(regions))
    /\ df = <<>>
    /\ merged_cost_df = {}
    /\ regional_data = {}
    /\ records = <<>>
    /\ melted_df = {}
    /\ outcome = "pending"
    /\ track_cost = {}
    /\ df_merged = NoFrame
    /\ df_with_avg = NoFrame
    /\ df_refilled = NoFrame

\* what a step of the metro cost estimate leaves alone
MetroStepUnchanged ==
    UNCHANGED <<uitp, regional_cost_track_per_km, regional_cars_cost_per_km,
                divideVars, pipelineVars, runVars, passVars, trackVars>>

CleanUitp ==
    /\ pc = "clean_uitp"
    /\ metro_df' = clean_uitp(uitp)
    /\ pc' = "calculate_new_track_length"
    /\ MetroStepUnchanged
    /\ UNCHANGED <<outcome, fillVars>>

CalculateNewTrackLength ==
    /\ pc = "calculate_new_track_length"
    /\ metro_df' = calculate_new_track_length(metro_df)
    /\ pc' = "estimate_future_years"
    /\ MetroStepUnchanged
    /\ UNCHANGED <<outcome, fillVars>>

EstimateFutureYears ==
    /\ pc = "estimate_future_years"
    /\ metro_df' = estimate_future_years(metro_df, YearsToExtrapolate)
    /\ pc' = "estimate_track_costs"
    /\ MetroStepUnchanged
    /\ UNCHANGED <<outcome, fillVars>>

EstimateTrackCosts ==
    /\ pc = "estimate_track_costs"
    /\ metro_df' = estimate_track_costs(metro_df, regional_cost_track_per_km)
    /\ pc' = "estimate_rolling_stock_costs"
    /\ MetroStepUnchanged
    /\ UNCHANGED <<outcome, fillVars>>

EstimateRollingStockCosts ==
    /\ pc = "estimate_rolling_stock_costs"
    /\ LET res == estimate_rolling_stock_costs(metro_df, regional_cars_cost_per_km)
       IN /\ outcome' = res.outcome
          /\ track_cost' = rename_distributed_year(regional_cars_cost_per_km)
          /\ df_merged' = res.df_merged
          /\ df_with_avg' = res.df_with_avg
          /\ metro_df' = res.frame
          /\ pc' = IF res.outcome = "returned" THEN "value_USDm" ELSE "failed"
    /\ MetroStepUnchanged
    /\ UNCHANGED df_refilled

\* the sum of the two costs and the export
ValueUSDm ==
    /\ pc = "value_USDm"
    /\ metro_df' = value_USDm(metro_df)
    /\ pc' = "metro_done"
    /\ MetroStepUnchanged
    /\ UNCHANGED <<outcome, fillVars>>

NextMetro ==
    \/ CleanUitp
    \/ CalculateNewTrackLength
    \/ EstimateFutureYears
    \/ EstimateTrackCosts
    \/ EstimateRollingStockCosts
    \/ ValueUSDm

SpecMetro == InitMetro /\ [][NextMetro]_vars

\* ------------------------------------------------------------------------
\* Properties of the metro cost estimate (SpecMetro)

\* the rows of a frame with the key (region, year)
RowsAt(frame, region, year) ==
    {r \in frame.rows : r.uitp_region = region /\ r.year = year}

\* the cell of the raw table for the region and the year, NaN without a row
\* for the year
LengthOfTrack(region, year) ==
    LET hits == {w \in uitp : w["Year"] = year}
        col == IF region = "MENA" THEN "MENA-Africa" ELSE region
    IN IF hits = {} THEN NaN ELSE (CHOOSE w \in hits : TRUE)[col]

\* C23: the frame calculate_new_track_length returns has one row for every
\* (region, year) of the cleaned table except those of 2013, and in every
\* row new_track_length is present and is the length of the year minus the
\* length of the year before.
C23_NewTrackLengthDefined ==
    pc = "estimate_future_years" =>
        /\ \A w \in uitp : \A region \in MetroRegions :
              Cardinality(RowsAt(metro_df, region, w["Year"]))
                 = IF w["Year"] = FirstUitpYear THEN 0 ELSE 1
        /\ \A r \in metro_df.rows :
              /\ ~isna(r.new_track_length)
              /\ ~isna(LengthOfTrack(r.uitp_region, r.year))
              /\ ~isna(LengthOfTrack(r.uitp_region, r.year - 1))
              /\ r.new_track_length
                    = (LengthOfTrack(r.uitp_region, r.year)
                         - LengthOfTrack(r.uitp_region, r.year - 1)) * LengthScale

\* the rows of the frame from 2017 on of a region whose new_track_length is
\* present
AveragedRows(frame, region) ==
    {r \in frame.rows : /\ r.year >= AverageFromYear
                        /\ r.uitp_region = region
                        /\ ~isna(r.new_track_length)}

RegionalCosts(table, year) ==
    {t \in table : /\ t.year = year
                   /\ t.uitp_region \notin {"global average", "global min", "global mean"}
                   /\ ~isna(t.cost_per_km_distributed)}

\* C29: in the frame written, value_USDm is the sum of the two costs, and
\* it is present in every row whose new_track_length is present and whose
\* year has a regional row in the track cost table and one in the
\* rolling-stock cost table.
C29_ValueComplete ==
    pc = "metro_done" =>
        \A r \in metro_df.rows :
            /\ r["value_USDm"]
                  = Plus(r["new_track_track_costs"], r["new_track_rolling_stock_costs"])
            /\ ( /\ ~isna(r["new_track_length"])
                 /\ RegionalCosts(rename_distributed_year(regional_cost_track_per_km),
                                  r["year"]) # {}
                 /\ RegionalCosts(rename_distributed_year(regional_cars_cost_per_km),
                                  r["year"]) # {} )
                  => ~isna(r["value_USDm"])

\* the keys (uitp_region, year) of the rows of a frame
KeysOf(frame) == {<<r["uitp_region"], r["year"]>> : r \in frame.rows}

\* C30: after every step the frame has at most one row per (uitp_region,
\* year), and the two cost steps leave the rows' keys as they were.
C30_KeyUniqueness ==
    [][ /\ \A k \in KeysOf(metro_df') :
              Cardinality({r \in metro_df'.rows : <<r["uitp_region"], r["year"]>> = k}) = 1
        /\ pc \in {"estimate_track_costs", "estimate_rolling_stock_costs"} =>
              /\ KeysOf(metro_df') = KeysOf(metro_df)
              /\ Cardinality(metro_df'.rows) = Cardinality(metro_df.rows) ]_vars

\* C21: after the gap filler, every row that came without a regional
\* rolling-stock cost and whose year occurs in the rolling-stock table has
\* cost_per_km_distributed present and equal to the lowest regional value of
\* the year.
C21_FallbackAvailable ==
    pc \in {"value_USDm", "metro_done"} =>
        \A l \in df_merged.rows :
            (isna(l["cost_per_km_distributed"])
               /\ \E t \in track_cost : t.year = l["year"]) =>
               \A f \in df_with_avg.rows :
                   f["index"] = l["index"] =>
                      /\ ~isna(f["cost_per_km_distributed"])
                      /\ \E t \in RegionalCosts(track_cost, l["year"]) :
                            /\ t.cost_per_km_distributed = f["cost_per_km_distributed"]
                            /\ \A u \in RegionalCosts(track_cost, l["year"]) :
                                  t.cost_per_km_distributed <= u.cost_per_km_distributed

=============================================================================
